---- MODULE Spec2Model ----
(***************************************************************************)
(* Community ERP: the record access layer (crud.py) over the two MongoDB   *)
(* collections of database.py, and the HTTP handlers of main.py that call  *)
(* it.  Strings are TLC strings; Len, \o and SubSeq are the operations     *)
(* used on them.                                                           *)
(***************************************************************************)
EXTENDS Integers, Sequences, FiniteSets, TLC

VARIABLES
    colleges,   \* database.py colleges_collection: a set of documents
    students,   \* database.py students_collection: a set of documents
    files,      \* the files under UPLOAD_DIR: a function path -> bytes
    resp,       \* the last request and the response it got
    session,    \* the claims of the bearer token the client holds
    pending     \* the requests in flight between two of their store operations

vars == <<colleges, students, files, resp, session, pending>>

\* ------------------------------------------------------------------ strings

\* Python's None, where a field or an argument may be a string or None.
None == "<None>"

UpperChars == "ABCDEFGHIJKLMNOPQRSTUVWXYZ"

LowerChars == "abcdefghijklmnopqrstuvwxyz"

Digits == "0123456789"

\* The characters of a string, as a set of one-character strings.
CharsOf(s) == { SubSeq(s, i, i) : i \in 1..Len(s) }

UpperSet == CharsOf(UpperChars)

AlnumSet == CharsOf(UpperChars) \cup CharsOf(LowerChars) \cup CharsOf(Digits)

\* The lower-case letter of each upper-case letter.
LowerOf ==
    [c \in UpperSet |->
        LET k == CHOOSE i \in 1..Len(UpperChars) : SubSeq(UpperChars, i, i) = c
        IN  SubSeq(LowerChars, k, k)]

\* str.lower() on one character.
LowerChar(c) == IF c \in UpperSet THEN LowerOf[c] ELSE c

\* str.lower()
RECURSIVE Lower(_)
Lower(s) ==
    IF Len(s) = 0 THEN ""
    ELSE LowerChar(SubSeq(s, 1, 1)) \o Lower(SubSeq(s, 2, Len(s)))

\* Python's  t in s  on strings.
Contains(s, t) ==
    \E i \in 1..(Len(s) - Len(t) + 1) : SubSeq(s, i, i + Len(t) - 1) = t

\* ------------------------------------------------------------ the store

\* Mutant: the unique index on contact_phone is never created.
CollegeIndexes_NoPhone == <<"name", "college_id", "contact_email">>

\* The unique indexes create_indexes() builds, in creation order.
CollegeIndexes == <<"name", "college_id", "contact_email", "contact_phone">>

\* Mutant: the unique index on phone is never created.
StudentIndexes_NoPhone == <<"email", "roll_no">>

StudentIndexes == <<"email", "phone", "roll_no">>

Range(seq) == { seq[i] : i \in 1..Len(seq) }

\* The ObjectId insert_one gives a new document.  Nothing in crud.py reads
\* an _id except to tell the documents of one collection apart, so the least
\* number no stored document carries stands for the new ObjectId.
FreshId(coll) ==
    CHOOSE i \in 1..(Cardinality(coll) + 1) :
        /\ \A d \in coll : d._id # i
        /\ \A j \in 1..(i - 1) : \E d \in coll : d._id = j

\* The documents of a collection that a one-field equality filter matches.
Find(coll, field, value) == { d \in coll : d[field] = value }

\* The unique indexes that document doc would violate next to the documents
\* rest of its collection.
Violated(rest, doc, indexes) ==
    { f \in Range(indexes) : \E d \in rest : d[f] = doc[f] }

\* str(DuplicateKeyError): the server's E11000 message, which names the
\* collection, the index (field_1) and the duplicated key with its value.
DupKeyMsg(ns, field, value) ==
    "E11000 duplicate key error collection: " \o ns
        \o " index: " \o field \o "_1 dup key: { " \o field
        \o ": \"" \o value \o "\" }"

\* auth.hash_password; the salt is left out, the hash is never compared here.
hash_password(password) == "$2b$" \o password

\* A request that any handler answers: what was asked and what came back.
Response(op, req, status, detail) ==
    [op |-> op, req |-> req, status |-> status, detail |-> detail]

\* ------------------------------------------------------------- colleges

\* crud.create_college: the outcomes of the insert.  A rejected insert
\* raises ValueError with the message chosen from str(e) by substring tests
\* in the order name, college_id, contact_email, contact_phone.
create_college(college) ==
    LET college_doc ==
            [_id           |-> FreshId(colleges),
             name          |-> college.name,
             address       |-> college.address,
             contact_email |-> college.contact_email,
             contact_phone |-> college.contact_phone,
             college_id    |-> college.college_id,
             admin_password |-> hash_password(college.admin_password)]
        dup == Violated(colleges, college_doc, CollegeIndexes)
        ValueError(error_msg) ==
            IF Contains(error_msg, "name")
            THEN "College name '" \o college.name \o "' already exists"
            ELSE IF Contains(error_msg, "college_id")
            THEN "College ID '" \o college.college_id \o "' already exists"
            ELSE IF Contains(error_msg, "contact_email")
            THEN "Contact email '" \o college.contact_email \o "' already exists"
            ELSE IF Contains(error_msg, "contact_phone")
            THEN "Contact phone '" \o college.contact_phone \o "' already exists"
            ELSE "Duplicate entry detected. Please check all fields."
    IN  IF dup = {}
        THEN { [raised |-> FALSE, message |-> "",
                colleges |-> colleges \cup {college_doc}] }
        ELSE { [raised |-> TRUE,
                message |-> ValueError(DupKeyMsg("erp.colleges", f, college_doc[f])),
                colleges |-> colleges] : f \in dup }

\* POST /colleges/.  The response model CollegeOut declares id: int while the
\* document carries str(ObjectId), so a successful insert is answered 200
\* only when that string happens to parse as an integer, and 500 otherwise.
register_college(college) ==
    \E r \in create_college(college), ok \in {200, 500} :
        /\ colleges' = r.colleges
        /\ resp' = IF r.raised
                   THEN Response("register_college", college, 400, r.message)
                   ELSE Response("register_college", college, ok, "")
        /\ UNCHANGED <<students, files, session, pending>>

\* crud.get_college_by_name: the matching documents (none: None).
get_college_by_name(name) == Find(colleges, "name", name)

\* ------------------------------------------------------------- students

\* crud.get_student_by_roll_no on a collection: the matching documents.
get_student_by_roll_no(coll, roll_no) == Find(coll, "roll_no", roll_no)

\* crud.create_student: the outcomes of the insert.  The new document has
\* no comments field; the empty list stands for the missing field, which is
\* how get_comments and $pull read it.
crud_create_student(student) ==
    LET student_doc ==
            [_id            |-> FreshId(students),
             college_name   |-> student.college_name,
             name           |-> student.name,
             email          |-> student.email,
             phone          |-> student.phone,
             roll_no        |-> student.roll_no,
             password       |-> hash_password(student.password),
             branch         |-> student.branch,
             year           |-> student.year,
             age            |-> student.age,
             college_id_pic |-> None,
             skills         |-> << >>,
             achievements   |-> << >>,
             projects       |-> << >>,
             comments       |-> << >>]
        dup == Violated(students, student_doc, StudentIndexes)
        ValueError(e) ==
            IF Contains(e, "email")
            THEN "Email '" \o student.email \o "' already exists"
            ELSE IF Contains(e, "phone")
            THEN "Phone number '" \o student.phone \o "' already exists"
            ELSE IF Contains(e, "roll_no")
            THEN "Roll number '" \o student.roll_no \o "' already exists"
            ELSE "Duplicate entry detected"
    IN  IF dup = {}
        THEN { [raised |-> FALSE, message |-> "",
                students |-> students \cup {student_doc}] }
        ELSE { [raised |-> TRUE,
                message |-> ValueError(DupKeyMsg("erp.students", f, student_doc[f])),
                students |-> students] : f \in dup }

\* Mutant: the handler inserts without looking the college up.
create_student_Unchecked(student) ==
    \E r \in crud_create_student(student) :
        /\ students' = r.students
        /\ resp' = IF r.raised
                   THEN Response("create_student", student, 400, r.message)
                   ELSE Response("create_student", student, 200, "")
        /\ UNCHANGED <<colleges, files, session, pending>>

\* POST /students/
create_student(student) ==
    IF get_college_by_name(student.college_name) = {}
    THEN /\ resp' = Response("create_student", student, 400,
                        "College '" \o student.college_name
                            \o "' is not registered. Register it first at POST /colleges/")
         /\ UNCHANGED <<colleges, students, files, session, pending>>
    ELSE \E r \in crud_create_student(student) :
            /\ students' = r.students
            /\ resp' = IF r.raised
                       THEN Response("create_student", student, 400, r.message)
                       ELSE Response("create_student", student, 200, "")
            /\ UNCHANGED <<colleges, files, session, pending>>

\* Mutant: the update rebuilds the document and its lists start empty again.
SetFields_ResetLists(doc, update_data) ==
    [f \in DOMAIN doc |->
        IF f \in DOMAIN update_data THEN update_data[f]
        ELSE IF f \in {"skills", "achievements", "projects"} THEN << >>
        ELSE doc[f]]

\* The document doc after {"$set": update_data}.
SetFields(doc, update_data) ==
    [f \in DOMAIN doc |-> IF f \in DOMAIN update_data THEN update_data[f] ELSE doc[f]]

\* crud.update_student: update_data holds the fields the request supplied.
\* The outcome is the collection afterwards and either the returned
\* documents (none: None) or the DuplicateKeyError that update_one raised,
\* which nothing here catches.
crud_update_student(roll_no, update_data) ==
    LET matched == Find(students, "roll_no", roll_no)
    IN  IF DOMAIN update_data = {} \/ matched = {}
        THEN [raised |-> FALSE, students |-> students,
              result |-> get_student_by_roll_no(students, roll_no)]
        ELSE LET old == CHOOSE d \in matched : TRUE
                 new == SetFields(old, update_data)
                 rest == students \ {old}
             IN  IF Violated(rest, new, StudentIndexes) # {}
                 THEN [raised |-> TRUE, students |-> students, result |-> {}]
                 ELSE [raised |-> FALSE, students |-> rest \cup {new},
                       result |-> get_student_by_roll_no(rest \cup {new}, roll_no)]

\* PUT /students/{roll_no}.  An exception that leaves the handler is answered
\* 500 Internal Server Error by the framework.
update_student(roll_no, student_update) ==
    LET r == crud_update_student(roll_no, student_update)
        req == [roll_no |-> roll_no, update |-> student_update]
    IN  /\ students' = r.students
        /\ resp' = IF r.raised
                   THEN Response("update_student", req, 500, "Internal Server Error")
                   ELSE IF r.result = {}
                   THEN Response("update_student", req, 404, "Student not found")
                   ELSE Response("update_student", req, 200, "")
        /\ UNCHANGED <<colleges, files, session, pending>>

\* crud.delete_student and DELETE /students/{roll_no}
delete_student(roll_no) ==
    LET deleted == Find(students, "roll_no", roll_no)
    IN  /\ students' = students \ deleted
        /\ resp' = IF deleted = {}
                   THEN Response("delete_student", roll_no, 404, "Student not found")
                   ELSE Response("delete_student", roll_no, 200, "Student deleted successfully")
        /\ UNCHANGED <<colleges, files, session, pending>>

\* ------------------------------------------- skills, achievements, projects

\* The collection with document old replaced by new.
Replace(coll, old, new) == (coll \ {old}) \cup {new}

\* update_one({"roll_no": roll_no}, {"$push": {field: obj}})
Push(coll, roll_no, field, obj) ==
    LET matched == Find(coll, "roll_no", roll_no)
    IN  IF matched = {} THEN coll
        ELSE LET old == CHOOSE d \in matched : TRUE
             IN  Replace(coll, old, [old EXCEPT ![field] = Append(@, obj)])

\* crud.add_skills: result is the returned documents (none: None).
add_skills(roll_no, skill_name, certificate, description) ==
    IF Find(students, "roll_no", roll_no) = {}
    THEN [students |-> students, result |-> {}]
    ELSE LET skill_obj == [name |-> skill_name, verified |-> FALSE,
                           certificate |-> certificate, description |-> description]
             after == Push(students, roll_no, "skills", skill_obj)
         IN  [students |-> after, result |-> get_student_by_roll_no(after, roll_no)]

\* crud.add_achievements
add_achievements(roll_no, achievement_name, certificate, description) ==
    IF Find(students, "roll_no", roll_no) = {}
    THEN [students |-> students, result |-> {}]
    ELSE LET achievement_obj == [name |-> achievement_name, verified |-> FALSE,
                                 certificate |-> certificate, description |-> description]
             after == Push(students, roll_no, "achievements", achievement_obj)
         IN  [students |-> after, result |-> get_student_by_roll_no(after, roll_no)]

\* Mutant: the validation looks for the host names without ".com".
InvalidRepositoryLink_NoDomain(github_link) ==
    \/ github_link = ""
    \/ ~ (\/ Contains(Lower(github_link), "github")
          \/ Contains(Lower(github_link), "gitlab"))

\* The validation of crud.add_projects: the link is empty, or names neither
\* host after lower-casing.
InvalidRepositoryLink(github_link) ==
    \/ github_link = ""
    \/ ~ (\/ Contains(Lower(github_link), "github.com")
          \/ Contains(Lower(github_link), "gitlab.com"))

\* crud.add_projects: result is the literal message, "None" or "student".
add_projects(roll_no, project_name, github_link) ==
    IF InvalidRepositoryLink(github_link)
    THEN [students |-> students,
          result |-> "Invalid repository link. Must be from GitHub or GitLab"]
    ELSE IF Find(students, "roll_no", roll_no) = {}
    THEN [students |-> students, result |-> None]
    ELSE LET project_obj == [name |-> project_name, verified |-> FALSE,
                             github_link |-> github_link, description |-> None]
         IN  [students |-> Push(students, roll_no, "projects", project_obj),
              result |-> "student"]

\* POST /students/{roll_no}/projects/
add_project(roll_no, project_name, github_link) ==
    LET r == add_projects(roll_no, project_name, github_link)
        req == [roll_no |-> roll_no, project_name |-> project_name,
                github_link |-> github_link]
    IN  /\ students' = r.students
        /\ resp' = IF r.result = None
                   THEN Response("add_project", req, 404, "Student not found")
                   ELSE IF r.result # "student"
                   THEN Response("add_project", req, 400, r.result)
                   ELSE Response("add_project", req, 200, "Project added successfully")
        /\ UNCHANGED <<colleges, files, session, pending>>

\* ------------------------------------------------------------- uploads

UPLOAD_DIR == "uploads/certificates"

\* str.isalnum() on one ASCII character.
IsAlnum(c) == c \in AlnumSet

\* "".join(c if c.isalnum() else "_" for c in name).lower()
RECURSIVE CleanName(_)
CleanName(name) ==
    IF Len(name) = 0 THEN ""
    ELSE LET c == SubSeq(name, 1, 1)
         IN  (IF IsAlnum(c) THEN LowerChar(c) ELSE "_")
                 \o CleanName(SubSeq(name, 2, Len(name)))

\* os.path.join(UPLOAD_DIR, f"{roll_no}_{slug}.png")
UploadPath(roll_no, slug) == UPLOAD_DIR \o "/" \o roll_no \o "_" \o slug \o ".png"

\* os.path.splitext(filename)[1].lower(): the text from the last dot of the
\* last path component, unless only dots precede it there.
FileExt(filename) ==
    LET n == Len(filename)
        seps == { i \in 1..n : SubSeq(filename, i, i) = "/" }
        start == IF seps = {} THEN 1
                 ELSE (CHOOSE i \in seps : \A j \in seps : j <= i) + 1
        dots == { i \in start..n : SubSeq(filename, i, i) = "." }
        last == CHOOSE i \in dots : \A j \in dots : j <= i
    IN  IF dots = {} \/ (\A j \in start..last : j \in dots) THEN ""
        ELSE Lower(SubSeq(filename, last, n))

\* The file system after open(path, "wb").write(bytes).
WriteFile(fs, path, bytes) ==
    [q \in DOMAIN fs \cup {path} |-> IF q = path THEN bytes ELSE fs[q]]

\* The file system after os.remove(path), when the path exists.
RemoveFile(fs, path) == [q \in DOMAIN fs \ {path} |-> fs[q]]

\* No certificate part in the multipart request.
NoUpload == [filename |-> "", bytes |-> ""]

CertificateExtensions == {".jpg", ".jpeg", ".png", ".gif", ".pdf"}

\* str.strip(): leading and trailing white space removed.
RECURSIVE Strip(_)
Strip(s) ==
    IF Len(s) = 0 THEN ""
    ELSE IF SubSeq(s, 1, 1) \in {" ", "\t", "\n", "\r"}
    THEN Strip(SubSeq(s, 2, Len(s)))
    ELSE IF SubSeq(s, Len(s), Len(s)) \in {" ", "\t", "\n", "\r"}
    THEN Strip(SubSeq(s, 1, Len(s) - 1))
    ELSE s

\* ----------------------------------------------- verification heuristic

\* An uploaded image is represented by what the external models answer
\* on it: the caption of models.generate_caption, the full_text and the
\* per-token confidence_scores (in hundredths) of models.extract_text, and
\* the call that raises on it, if one does, with the text of the exception.
Image(caption, full_text, confidence_scores) ==
    [raises |-> "", error |-> "", caption |-> caption, full_text |-> full_text,
     confidence_scores |-> confidence_scores]

\* An image on which the named call raises: "preprocess", "caption", "ocr",
\* or "match" for a step on the result of the OCR call.
Broken(image, call, error) ==
    [raises |-> call, error |-> error, caption |-> image.caption,
     full_text |-> image.full_text, confidence_scores |-> image.confidence_scores]

\* return is_valid, message, extra
Return(is_valid, message, extra) ==
    [raised |-> FALSE, is_valid |-> is_valid, message |-> message, extra |-> extra]

\* An exception leaves the function.
Raise(error) == [raised |-> TRUE, is_valid |-> FALSE, message |-> error, extra |-> ""]

IsSpace(c) == c \in {" ", "\t", "\n", "\r"}

\* str.split(): the maximal runs of characters that are not white space.
RECURSIVE Split(_)
Split(s) ==
    IF Len(s) = 0 THEN << >>
    ELSE IF IsSpace(SubSeq(s, 1, 1)) THEN Split(SubSeq(s, 2, Len(s)))
    ELSE LET ends == { i \in 1..Len(s) :
                         /\ \A j \in 1..i : ~ IsSpace(SubSeq(s, j, j))
                         /\ (i = Len(s) \/ IsSpace(SubSeq(s, i + 1, i + 1))) }
             n == CHOOSE i \in ends : TRUE
         IN  <<SubSeq(s, 1, n)>> \o Split(SubSeq(s, n + 1, Len(s)))

\* s.replace(" ", "").replace("-", "").replace("_", "")
RECURSIVE Clean(_)
Clean(s) ==
    IF Len(s) = 0 THEN ""
    ELSE (IF SubSeq(s, 1, 1) \in {" ", "-", "_"} THEN "" ELSE SubSeq(s, 1, 1))
             \o Clean(SubSeq(s, 2, Len(s)))

\* The count with the short parts counted as well.
Matched_ShortToo(parts, extracted_text) ==
    Cardinality({ i \in 1..Len(parts) : Contains(extracted_text, parts[i]) })

\* sum(1 for part in parts if len(part) > 2 and part in extracted_text)
Matched(parts, extracted_text) ==
    Cardinality({ i \in 1..Len(parts) :
                    Len(parts[i]) > 2 /\ Contains(extracted_text, parts[i]) })

\* [w for w in text.split() if len(w) > 2]
RECURSIVE LongWords(_)
LongWords(parts) ==
    IF Len(parts) = 0 THEN << >>
    ELSE (IF Len(Head(parts)) > 2 THEN <<Head(parts)>> ELSE << >>)
             \o LongWords(Tail(parts))

\* The comparison with <= in place of <.
BelowThreshold_Inclusive(matched, total) == 10 * matched <= 6 * total

\* matched / total < 0.6, on the quotient of two small integers.
BelowThreshold(matched, total) == 10 * matched < 6 * total

\* round(num / den, 2) in thousandths, as the set of the values it may
\* take.  The quotient is a binary floating point number: when num / den is
\* half-way between two hundredths, the number at hand lies on either side
\* of it, and either hundredth results.
Round2(num, den) ==
    LET twice == (200 * num) \div den
        h == twice \div 2
    IN  IF twice % 2 = 0 THEN {10 * h}
        ELSE IF (200 * num) % den = 0 THEN {10 * h, 10 * (h + 1)}
        ELSE {10 * (h + 1)}

\* if not extracted_text, with the condition that the text is there removed.
NoText_Never(extracted_text) == FALSE

\* if not extracted_text
NoText(extracted_text) == extracted_text = ""

RECURSIVE Sum(_)
Sum(seq) == IF Len(seq) = 0 THEN 0 ELSE Head(seq) + Sum(Tail(seq))

\* any(keyword in caption.lower() for keyword in ['yes', 'id', 'student'])
is_id_card(caption) ==
    \E keyword \in {"yes", "id", "student"} : Contains(Lower(caption), keyword)

\* The certificate gate with one more keyword.
is_certificate_WithPhoto(caption) ==
    \E keyword \in {"yes", "certificate", "award", "photo"} :
        Contains(Lower(caption), keyword)

\* any(keyword in caption.lower() for keyword in ['yes', 'certificate', 'award'])
is_certificate(caption) ==
    \E keyword \in {"yes", "certificate", "award"} : Contains(Lower(caption), keyword)

\* The try block of verify_college_id_with_models.
college_id_try(image_bytes, student_name, roll_no) ==
    LET extracted_text == Lower(image_bytes.full_text)
        name_parts == Split(Lower(student_name))
        matched_parts == Matched(name_parts, extracted_text)
        roll_no_clean == Clean(Lower(roll_no))
        extracted_clean == Clean(extracted_text)
        matched_chars ==
            Cardinality({ i \in 1..Len(roll_no_clean) :
                            Contains(extracted_clean, SubSeq(roll_no_clean, i, i)) })
    IN  IF image_bytes.raises \in {"preprocess", "caption"}
        THEN Raise(image_bytes.error)
        ELSE IF ~ is_id_card(image_bytes.caption)
        THEN Return(FALSE,
                    "The uploaded image does not appear to be a valid college ID card", "")
        ELSE IF image_bytes.raises \in {"ocr", "match"}
        THEN Raise(image_bytes.error)
        ELSE IF NoText(extracted_text)
        THEN Return(FALSE,
                    "Could not extract any text from the ID card. Please upload a clearer image",
                    "")
        ELSE IF Len(name_parts) = 0 \/ BelowThreshold(matched_parts, Len(name_parts))
        THEN Return(FALSE,
                    "Student name '" \o student_name
                        \o "' does not match the name on the ID card. Please ensure the name matches your registration.",
                    "")
        ELSE IF /\ ~ Contains(extracted_clean, roll_no_clean)
                /\ (Len(roll_no_clean) = 0
                        \/ BelowThreshold(matched_chars, Len(roll_no_clean)))
        THEN Return(FALSE,
                    "Roll number '" \o roll_no
                        \o "' does not match the ID on the card. Please verify your roll number and try again.",
                    "")
        ELSE Return(TRUE, "College ID verified successfully", Strip(image_bytes.full_text))

\* The try block without the except clause.
verify_college_id_with_models_Propagates(image_bytes, student_name, roll_no) ==
    college_id_try(image_bytes, student_name, roll_no)

\* verify_college_id_with_models: the try block, and the except clause that
\* turns an exception into a rejection.
verify_college_id_with_models(image_bytes, student_name, roll_no) ==
    LET r == college_id_try(image_bytes, student_name, roll_no)
    IN  IF r.raised
        THEN Return(FALSE, "Error processing college ID: " \o r.message, "")
        ELSE r

verify_college_id_with_ai(image_bytes, mime_type, student_name, roll_no) ==
    verify_college_id_with_models(image_bytes, student_name, roll_no)

\* The dictionary with institution_match starting at 1.0 instead of 0.0.
Scores_InstitutionPreset(overall, image_type, student_name, institution, skill, ocr) ==
    [overall_confidence |-> overall, image_type_match |-> image_type,
     student_name_match |-> student_name,
     institution_match |-> IF institution = 0 THEN 1000 ELSE institution,
     skill_match |-> skill, ocr_confidence |-> ocr]

\* The confidence_scores dictionary, in thousandths.
Scores(overall, image_type, student_name, institution, skill, ocr) ==
    [overall_confidence |-> overall, image_type_match |-> image_type,
     student_name_match |-> student_name, institution_match |-> institution,
     skill_match |-> skill, ocr_confidence |-> ocr]

\* The sum with the weight of the OCR confidence counted twice.
Weighted_DoubleOcr(wi, image_type, wn, student_name, wt, institution, ws, skill, wo, ocr) ==
    Round2(wi * image_type + wn * student_name + wt * institution + ws * skill
               + 2 * wo * ocr, 100000)

\* round(image * wi + name * wn + institution * wt + skill * ws + ocr * wo, 2)
\* with the weights in hundredths: the values it may take.
Weighted(wi, image_type, wn, student_name, wt, institution, ws, skill, wo, ocr) ==
    Round2(wi * image_type + wn * student_name + wt * institution + ws * skill
               + wo * ocr, 100000)

\* The position of the last " - " in the description, 0 if there is none.
HyphenAt_Last(description) ==
    LET at == { i \in 1..(Len(description) - 2) : SubSeq(description, i, i + 2) = " - " }
    IN  IF at = {} THEN 0 ELSE CHOOSE i \in at : \A j \in at : i >= j

\* The position of the first " - " in the description, 0 if there is none.
HyphenAt(description) ==
    LET at == { i \in 1..(Len(description) - 2) : SubSeq(description, i, i + 2) = " - " }
    IN  IF at = {} THEN 0 ELSE CHOOSE i \in at : \A j \in at : i <= j

\* The try block of verify_certificate_with_ai: the results it may have,
\* one for each way its roundings may fall.
certificate_try(image_bytes, student_name, skill_or_achievement, description) ==
    LET extracted_text == Lower(image_bytes.full_text)
        tokens == image_bytes.confidence_scores
        ocrs == IF Len(tokens) > 0 THEN Round2(Sum(tokens), 100 * Len(tokens)) ELSE {0}
        name_parts == Split(Lower(student_name))
        names == IF Len(name_parts) > 0
                 THEN Round2(Matched(name_parts, extracted_text), Len(name_parts))
                 ELSE {1000}
        name_fails == /\ Len(name_parts) > 0
                      /\ BelowThreshold(Matched(name_parts, extracted_text), Len(name_parts))
        k == IF description = None THEN 0 ELSE HyphenAt(description)
        institution_name == IF k = 0 THEN None
                            ELSE Lower(Strip(SubSeq(description, 1, k - 1)))
        expected_skill == IF k = 0 THEN Lower(skill_or_achievement)
                          ELSE Lower(Strip(SubSeq(description, k + 3, Len(description))))
        institution_words == IF institution_name \in {None, ""} THEN << >>
                             ELSE LongWords(Split(institution_name))
        institutions == IF Len(institution_words) > 0
                        THEN Round2(Matched(institution_words, extracted_text),
                                    Len(institution_words))
                        ELSE {1000}
        institution_fails ==
            /\ Len(institution_words) > 0
            /\ BelowThreshold(Matched(institution_words, extracted_text),
                              Len(institution_words))
        skill_words == LongWords(Split(expected_skill))
        skills == IF Len(skill_words) > 0
                  THEN Round2(Matched(skill_words, extracted_text), Len(skill_words))
                  ELSE {1000}
        skill_fails == /\ Len(skill_words) > 0
                       /\ BelowThreshold(Matched(skill_words, extracted_text),
                                         Len(skill_words))
    IN  IF image_bytes.raises \in {"preprocess", "caption"}
        THEN {Raise(image_bytes.error)}
        ELSE IF ~ is_certificate(image_bytes.caption)
        THEN {Return(FALSE, "The uploaded image does not appear to be a valid certificate",
                     Scores(0, 0, 0, 0, 0, 0))}
        ELSE IF image_bytes.raises \in {"ocr", "match"}
        THEN {Raise(image_bytes.error)}
        ELSE IF NoText(extracted_text)
        THEN { Return(FALSE,
                      "Could not extract any text from the certificate. Please upload a clearer image",
                      Scores(ocr \div 5, 1000, 0, 0, 0, ocr)) : ocr \in ocrs }
        ELSE IF name_fails
        THEN UNION { { Return(FALSE,
                              "Student name '" \o student_name
                                  \o "' does not match the name on the certificate",
                              Scores(overall, 1000, name, 0, 0, ocr)) :
                         overall \in Weighted(25, 1000, 25, name, 0, 0, 0, 0, 50, ocr) } :
                     ocr \in ocrs, name \in names }
        ELSE IF institution_fails
        THEN UNION { { Return(FALSE,
                              "Institution name '" \o institution_name
                                  \o "' does not match the certificate content",
                              Scores(overall, 1000, name, institution, 0, ocr)) :
                         overall \in Weighted(20, 1000, 20, name, 20, institution,
                                              0, 0, 40, ocr) } :
                     ocr \in ocrs, name \in names, institution \in institutions }
        ELSE UNION { { Return(~ skill_fails,
                              IF skill_fails
                              THEN "Skill/Achievement '" \o expected_skill
                                       \o "' does not match the certificate content"
                              ELSE "Certificate verified successfully",
                              Scores(overall, 1000, t[2], t[3], t[4], t[1])) :
                         overall \in Weighted(20, 1000, 20, t[2], 15, t[3],
                                              20, t[4], 25, t[1]) } :
                     t \in ocrs \X names \X institutions \X skills }

\* verify_certificate_with_ai: the try block, and the except clause that
\* turns an exception into a rejection with every score 0; the results it
\* may have.
verify_certificate_with_ai(image_bytes, mime_type, student_name, skill_or_achievement, description) ==
    { IF r.raised
      THEN Return(FALSE, "Error processing certificate: " \o r.message,
                  Scores(0, 0, 0, 0, 0, 0))
      ELSE r :
        r \in certificate_try(image_bytes, student_name, skill_or_achievement, description) }

\* A score as Python prints it: 0 is "0.0", 450 is "0.45", 1000 is "1.0".
FormatScore(t) ==
    LET digit(d) == SubSeq(Digits, d + 1, d + 1)
        f == t % 1000
    IN  digit(t \div 1000) \o "."
            \o (IF f % 10 # 0 THEN digit(f \div 100) \o digit((f \div 10) % 10) \o digit(f % 10)
                ELSE IF f % 100 # 0 THEN digit(f \div 100) \o digit((f \div 10) % 10)
                ELSE digit(f \div 100))

\* raise HTTPException(status, detail) before anything was written.
Rejected(op, req, status, detail) ==
    /\ resp' = Response(op, req, status, detail)
    /\ UNCHANGED <<colleges, students, files, session, pending>>

\* mime_type_map.get(file_ext, 'image/jpeg')
MimeType(file_ext) ==
    CASE file_ext = ".png" -> "image/png"
      [] file_ext = ".gif" -> "image/gif"
      [] file_ext = ".pdf" -> "application/pdf"
      [] OTHER -> "image/jpeg"

\* POST /students/{roll_no}/skills/.  An exception that left
\* verify_certificate_with_ai would leave the handler too.
add_skill(roll_no, skills, description, certificate) ==
    LET req == [roll_no |-> roll_no, name |-> skills, description |-> description,
                certificate |-> certificate]
        found == get_student_by_roll_no(students, roll_no)
        student == CHOOSE d \in found : TRUE
        uploaded == certificate.filename # ""
        clean_skill_name == CleanName(skills)
        file_path == UploadPath(roll_no, clean_skill_name)
        verdicts == IF uploaded
                    THEN verify_certificate_with_ai(certificate.bytes,
                                                    MimeType(FileExt(certificate.filename)),
                                                    student.name, skills, description)
                    ELSE {Return(TRUE, "No certificate uploaded", None)}
        certificate_path == IF uploaded THEN file_path ELSE None
        final_description ==
            IF description # None /\ description # "" /\ Strip(description) # ""
            THEN description ELSE None
        r == add_skills(roll_no, skills, certificate_path, final_description)
    IN  IF found = {}
        THEN Rejected("add_skill", req, 404, "Student not found")
        ELSE IF student.name \in {None, ""}
        THEN Rejected("add_skill", req, 400, "Student name not found in database")
        ELSE IF uploaded /\ FileExt(certificate.filename) \notin CertificateExtensions
        THEN Rejected("add_skill", req, 400,
                      "Invalid file type. Allowed types: .jpg, .jpeg, .png, .gif, .pdf")
        ELSE \E v \in verdicts :
            IF v.raised
            THEN Rejected("add_skill", req, 500, "Internal Server Error")
            ELSE IF ~ v.is_valid
            THEN Rejected("add_skill", req, 400,
                          v.message \o ". Confidence Score: "
                              \o FormatScore(v.extra.overall_confidence))
            ELSE /\ files' = IF uploaded
                             THEN WriteFile(files, file_path, certificate.bytes)
                             ELSE files
                 /\ students' = r.students
                 /\ resp' = IF r.result = {}
                            THEN Response("add_skill", req, 404, "Student not found")
                            ELSE Response("add_skill", req, 200, "Skill added successfully")
                 /\ UNCHANGED <<colleges, session, pending>>

\* POST /students/{roll_no}/achievements/.
add_achievement(roll_no, achievements, description, certificate) ==
    LET req == [roll_no |-> roll_no, name |-> achievements, description |-> description,
                certificate |-> certificate]
        found == get_student_by_roll_no(students, roll_no)
        student == CHOOSE d \in found : TRUE
        uploaded == certificate.filename # ""
        clean_achievement_name == CleanName(achievements)
        file_path == UploadPath(roll_no, clean_achievement_name)
        verdicts == IF uploaded
                    THEN verify_certificate_with_ai(certificate.bytes,
                                                    MimeType(FileExt(certificate.filename)),
                                                    student.name, achievements, description)
                    ELSE {Return(TRUE, "No certificate uploaded", None)}
        certificate_path == IF uploaded THEN file_path ELSE None
        final_description ==
            IF description # None /\ description # "" /\ Strip(description) # ""
            THEN description ELSE None
        r == add_achievements(roll_no, achievements, certificate_path, final_description)
    IN  IF found = {}
        THEN Rejected("add_achievement", req, 404, "Student not found")
        ELSE IF student.name \in {None, ""}
        THEN Rejected("add_achievement", req, 400, "Student name not found in database")
        ELSE IF uploaded /\ FileExt(certificate.filename) \notin CertificateExtensions
        THEN Rejected("add_achievement", req, 400,
                      "Invalid file type. Allowed types: .jpg, .jpeg, .png, .gif, .pdf")
        ELSE \E v \in verdicts :
            IF v.raised
            THEN Rejected("add_achievement", req, 500, "Internal Server Error")
            ELSE IF ~ v.is_valid
            THEN Rejected("add_achievement", req, 400,
                          v.message \o ". Confidence Score: "
                              \o FormatScore(v.extra.overall_confidence))
            ELSE /\ files' = IF uploaded
                             THEN WriteFile(files, file_path, certificate.bytes)
                             ELSE files
                 /\ students' = r.students
                 /\ resp' = IF r.result = {}
                            THEN Response("add_achievement", req, 404, "Student not found")
                            ELSE Response("add_achievement", req, 200, "Achievement added successfully")
                 /\ UNCHANGED <<colleges, session, pending>>

\* crud.update_college_id_pic: the collection afterwards and matched_count > 0.
update_college_id_pic(roll_no, file_path) ==
    LET matched == Find(students, "roll_no", roll_no)
    IN  IF matched = {} THEN [students |-> students, result |-> FALSE]
        ELSE LET old == CHOOSE d \in matched : TRUE
             IN  [students |-> Replace(students, old,
                                       [old EXCEPT !.college_id_pic = file_path]),
                  result |-> TRUE]

IdCardExtensions == {".jpg", ".jpeg", ".png", ".gif"}

\* Mutant: the handler saves the file before it asks for the verification.
upload_college_id_SaveFirst(roll_no, college_id_pic) ==
    LET req == [roll_no |-> roll_no, college_id_pic |-> college_id_pic]
        found == get_student_by_roll_no(students, roll_no)
        student == CHOOSE d \in found : TRUE
        v == verify_college_id_with_ai(college_id_pic.bytes,
                                       MimeType(FileExt(college_id_pic.filename)),
                                       student.name, roll_no)
        file_path == UploadPath(roll_no, "college_id")
        r == update_college_id_pic(roll_no, file_path)
    IN  IF college_id_pic.filename = ""
        THEN Rejected("upload_college_id", req, 400, "No file provided")
        ELSE IF found = {}
        THEN Rejected("upload_college_id", req, 404, "Student not found")
        ELSE IF FileExt(college_id_pic.filename) \notin IdCardExtensions
        THEN Rejected("upload_college_id", req, 400,
                      "Invalid file type. Allowed types: .jpg, .jpeg, .png, .gif")
        ELSE /\ files' = WriteFile(files, file_path, college_id_pic.bytes)
             /\ students' = IF v.is_valid THEN r.students ELSE students
             /\ resp' = IF v.is_valid
                        THEN Response("upload_college_id", req, 200,
                                      "College ID card uploaded and verified successfully")
                        ELSE Response("upload_college_id", req, 400, v.message)
             /\ UNCHANGED <<colleges, session, pending>>

\* POST /students/{roll_no}/upload-college-id/.
upload_college_id(roll_no, college_id_pic) ==
    LET req == [roll_no |-> roll_no, college_id_pic |-> college_id_pic]
        found == get_student_by_roll_no(students, roll_no)
        student == CHOOSE d \in found : TRUE
        v == verify_college_id_with_ai(college_id_pic.bytes,
                                       MimeType(FileExt(college_id_pic.filename)),
                                       student.name, roll_no)
        file_path == UploadPath(roll_no, "college_id")
        r == update_college_id_pic(roll_no, file_path)
    IN  IF college_id_pic.filename = ""
        THEN Rejected("upload_college_id", req, 400, "No file provided")
        ELSE IF found = {}
        THEN Rejected("upload_college_id", req, 404, "Student not found")
        ELSE IF student.name \in {None, ""}
        THEN Rejected("upload_college_id", req, 400, "Student name not found in database")
        ELSE IF FileExt(college_id_pic.filename) \notin IdCardExtensions
        THEN Rejected("upload_college_id", req, 400,
                      "Invalid file type. Allowed types: .jpg, .jpeg, .png, .gif")
        ELSE IF v.raised
        THEN Rejected("upload_college_id", req, 500, "Internal Server Error")
        ELSE IF ~ v.is_valid
        THEN Rejected("upload_college_id", req, 400, v.message)
        ELSE /\ students' = r.students
             /\ files' = IF r.result
                         THEN WriteFile(files, file_path, college_id_pic.bytes)
                         ELSE RemoveFile(WriteFile(files, file_path, college_id_pic.bytes),
                                         file_path)
             /\ resp' = IF r.result
                        THEN Response("upload_college_id", req, 200,
                                      "College ID card uploaded and verified successfully")
                        ELSE Response("upload_college_id", req, 500,
                                      "Failed to update student record")
             /\ UNCHANGED <<colleges, session, pending>>

\* ------------------------------------------- uploads, request by request
\* The upload handlers are coroutines and the other handlers run in a
\* thread pool, so another request can be served between the lookup of the
\* student and the write that follows the verification.  The first step
\* of an upload is its lookup, checks and verification; the second is the
\* rest of the handler.  A request the checks refuse is the one step of
\* the handler above.

\* upload_college_id up to the accepted verification.
upload_college_id_begin(roll_no, college_id_pic) ==
    LET found == get_student_by_roll_no(students, roll_no)
        student == CHOOSE d \in found : TRUE
        v == verify_college_id_with_ai(college_id_pic.bytes,
                                       MimeType(FileExt(college_id_pic.filename)),
                                       student.name, roll_no)
    IN  /\ college_id_pic.filename # ""
        /\ found # {}
        /\ student.name \notin {None, ""}
        /\ FileExt(college_id_pic.filename) \in IdCardExtensions
        /\ ~ v.raised /\ v.is_valid
        /\ pending' = pending \cup
              {[op |-> "upload_college_id",
                req |-> [roll_no |-> roll_no, college_id_pic |-> college_id_pic]]}
        /\ UNCHANGED <<colleges, students, files, resp, session>>

\* upload_college_id from the saving of the file on.
upload_college_id_finish(p) ==
    LET file_path == UploadPath(p.req.roll_no, "college_id")
        written == WriteFile(files, file_path, p.req.college_id_pic.bytes)
        r == update_college_id_pic(p.req.roll_no, file_path)
    IN  /\ p \in pending /\ p.op = "upload_college_id"
        /\ pending' = pending \ {p}
        /\ students' = r.students
        /\ files' = IF r.result THEN written ELSE RemoveFile(written, file_path)
        /\ resp' = IF r.result
                   THEN Response("upload_college_id", p.req, 200,
                                 "College ID card uploaded and verified successfully")
                   ELSE Response("upload_college_id", p.req, 500,
                                 "Failed to update student record")
        /\ UNCHANGED <<colleges, session>>

\* add_skill or add_achievement up to the accepted verification of an
\* uploaded certificate.
add_item_begin(op, roll_no, name, description, certificate) ==
    LET found == get_student_by_roll_no(students, roll_no)
        student == CHOOSE d \in found : TRUE
        verdicts == verify_certificate_with_ai(certificate.bytes,
                                               MimeType(FileExt(certificate.filename)),
                                               student.name, name, description)
    IN  /\ op \in {"add_skill", "add_achievement"}
        /\ certificate.filename # ""
        /\ found # {}
        /\ student.name \notin {None, ""}
        /\ FileExt(certificate.filename) \in CertificateExtensions
        /\ \E v \in verdicts : ~ v.raised /\ v.is_valid
        /\ pending' = pending \cup
              {[op |-> op,
                req |-> [roll_no |-> roll_no, name |-> name, description |-> description,
                         certificate |-> certificate]]}
        /\ UNCHANGED <<colleges, students, files, resp, session>>

add_skill_begin(roll_no, skills, description, certificate) ==
    add_item_begin("add_skill", roll_no, skills, description, certificate)

add_achievement_begin(roll_no, achievements, description, certificate) ==
    add_item_begin("add_achievement", roll_no, achievements, description, certificate)

\* add_skill or add_achievement from the saving of the certificate on.
add_item_finish(p) ==
    LET file_path == UploadPath(p.req.roll_no, CleanName(p.req.name))
        description == p.req.description
        final_description ==
            IF description # None /\ description # "" /\ Strip(description) # ""
            THEN description ELSE None
        r == IF p.op = "add_skill"
             THEN add_skills(p.req.roll_no, p.req.name, file_path, final_description)
             ELSE add_achievements(p.req.roll_no, p.req.name, file_path, final_description)
    IN  /\ p \in pending /\ p.op \in {"add_skill", "add_achievement"}
        /\ pending' = pending \ {p}
        /\ files' = WriteFile(files, file_path, p.req.certificate.bytes)
        /\ students' = r.students
        /\ resp' = IF r.result = {}
                   THEN Response(p.op, p.req, 404, "Student not found")
                   ELSE Response(p.op, p.req, 200,
                                 IF p.op = "add_skill" THEN "Skill added successfully"
                                 ELSE "Achievement added successfully")
        /\ UNCHANGED <<colleges, session>>

\* ---------------------------------------------------- admin verification

\* The update with the all-positional operator: every element of that name.
SetFirstVerified_All(coll, roll_no, field, name) ==
    LET matched == { d \in Find(coll, "roll_no", roll_no) :
                       \E i \in 1..Len(d[field]) : d[field][i].name = name }
    IN  IF matched = {}
        THEN [students |-> coll, matched_count |-> 0, modified_count |-> 0]
        ELSE LET old == CHOOSE d \in matched : TRUE
                 new == [old EXCEPT ![field] =
                            [i \in 1..Len(old[field]) |->
                                IF old[field][i].name = name
                                THEN [old[field][i] EXCEPT !.verified = TRUE]
                                ELSE old[field][i]]]
             IN  [students |-> Replace(coll, old, new), matched_count |-> 1,
                  modified_count |-> IF new = old THEN 0 ELSE 1]

\* update_one({"roll_no": roll_no, field + ".name": name},
\*            {"$set": {field + ".$.verified": True}}): the positional operator
\* stands for the first element the filter matches; modified_count counts the
\* document only if the write changed it.
SetFirstVerified(coll, roll_no, field, name) ==
    LET matched == { d \in Find(coll, "roll_no", roll_no) :
                       \E i \in 1..Len(d[field]) : d[field][i].name = name }
    IN  IF matched = {}
        THEN [students |-> coll, matched_count |-> 0, modified_count |-> 0]
        ELSE LET old == CHOOSE d \in matched : TRUE
                 k == CHOOSE i \in 1..Len(old[field]) :
                        /\ old[field][i].name = name
                        /\ \A j \in 1..(i - 1) : old[field][j].name # name
                 new == [old EXCEPT ![field][k].verified = TRUE]
             IN  [students |-> Replace(coll, old, new), matched_count |-> 1,
                  modified_count |-> IF new = old THEN 0 ELSE 1]

\* crud.verify_student_skill
verify_student_skill(roll_no, skill_name) ==
    IF Find(students, "roll_no", roll_no) = {}
    THEN [students |-> students, success |-> FALSE, message |-> "Student not found"]
    ELSE LET result == SetFirstVerified(students, roll_no, "skills", skill_name)
         IN  IF result.modified_count > 0
             THEN [students |-> result.students, success |-> TRUE,
                   message |-> "Skill '" \o skill_name \o "' verified successfully"]
             ELSE [students |-> result.students, success |-> FALSE,
                   message |-> "Skill '" \o skill_name \o "' not found"]

\* crud.verify_student_achievement
verify_student_achievement(roll_no, achievement_name) ==
    IF Find(students, "roll_no", roll_no) = {}
    THEN [students |-> students, success |-> FALSE, message |-> "Student not found"]
    ELSE LET result == SetFirstVerified(students, roll_no, "achievements", achievement_name)
         IN  IF result.modified_count > 0
             THEN [students |-> result.students, success |-> TRUE,
                   message |-> "Achievement '" \o achievement_name \o "' verified successfully"]
             ELSE [students |-> result.students, success |-> FALSE,
                   message |-> "Achievement '" \o achievement_name \o "' not found"]

\* crud.verify_student_project
verify_student_project(roll_no, project_name) ==
    IF Find(students, "roll_no", roll_no) = {}
    THEN [students |-> students, success |-> FALSE, message |-> "Student not found"]
    ELSE LET result == SetFirstVerified(students, roll_no, "projects", project_name)
         IN  IF result.modified_count > 0
             THEN [students |-> result.students, success |-> TRUE,
                   message |-> "Project '" \o project_name \o "' verified successfully"]
             ELSE [students |-> result.students, success |-> FALSE,
                   message |-> "Project '" \o project_name \o "' not found"]

\* The three admin endpoints: a result without success is raised as 404.
Verified(op, roll_no, name, result) ==
    /\ students' = result.students
    /\ resp' = Response(op, [roll_no |-> roll_no, name |-> name],
                        IF result.success THEN 200 ELSE 404, result.message)
    /\ UNCHANGED <<colleges, files, session, pending>>

\* POST /admin/verify-skill/{roll_no}
verify_skill(roll_no, skill_name) ==
    Verified("verify_skill", roll_no, skill_name,
             verify_student_skill(roll_no, skill_name))

\* POST /admin/verify-achievement/{roll_no}
verify_achievement(roll_no, achievement_name) ==
    Verified("verify_achievement", roll_no, achievement_name,
             verify_student_achievement(roll_no, achievement_name))

\* POST /admin/verify-project/{roll_no}
verify_project(roll_no, project_name) ==
    Verified("verify_project", roll_no, project_name,
             verify_student_project(roll_no, project_name))

\* ------------------------------------------------- the admin's work list

\* not item.get("verified", False)
Unverified(item) == ~ item.verified

\* The query of get_unverified_students: an unverified element in one of the
\* three arrays and, when a college name is given, that name whatever the
\* case of its letters (the names here hold no character a regular
\* expression reads as an operator).
ListedBy(d, college_name) ==
    /\ \/ \E i \in 1..Len(d.skills) : Unverified(d.skills[i])
       \/ \E i \in 1..Len(d.achievements) : Unverified(d.achievements[i])
       \/ \E i \in 1..Len(d.projects) : Unverified(d.projects[i])
    /\ college_name \in {None, ""} \/ Lower(d.college_name) = Lower(college_name)

\* The list without the projects.
get_unverified_students_NoProjects(coll, college_name) ==
    { [id |-> d._id, name |-> d.name, roll_no |-> d.roll_no, email |-> d.email,
       college_name |-> d.college_name,
       unverified_skills |-> SelectSeq(d.skills, Unverified),
       unverified_achievements |-> SelectSeq(d.achievements, Unverified),
       unverified_projects |-> << >>] :
      d \in { x \in coll : ListedBy(x, college_name) } }

\* crud.get_unverified_students
get_unverified_students(coll, college_name) ==
    { [id |-> d._id, name |-> d.name, roll_no |-> d.roll_no, email |-> d.email,
       college_name |-> d.college_name,
       unverified_skills |-> SelectSeq(d.skills, Unverified),
       unverified_achievements |-> SelectSeq(d.achievements, Unverified),
       unverified_projects |-> SelectSeq(d.projects, Unverified)] :
      d \in { x \in coll : ListedBy(x, college_name) } }

\* One call of crud.verify_student_skill, _achievement or _project for each
\* item of the list, with the item's name, one after the other; the
\* collection after the last.
RECURSIVE VerifyCalls(_, _, _, _)
VerifyCalls(coll, roll_no, field, items) ==
    IF items = << >> THEN coll
    ELSE VerifyCalls(SetFirstVerified(coll, roll_no, field, Head(items).name).students,
                     roll_no, field, Tail(items))

\* The admin reads GET /admin/unverified-students, makes the verify call of
\* every item listed for one student, nothing else being served in between,
\* and reads the list again.
verify_listed(roll_no, college_name) ==
    \E e \in get_unverified_students(students, college_name) :
        /\ e.roll_no = roll_no
        /\ students' = VerifyCalls(
                         VerifyCalls(
                           VerifyCalls(students, roll_no, "skills", e.unverified_skills),
                           roll_no, "achievements", e.unverified_achievements),
                         roll_no, "projects", e.unverified_projects)
        /\ resp' = Response("verify_listed",
                            [roll_no |-> roll_no, college_name |-> college_name,
                             listed |-> e],
                            200, get_unverified_students(students', college_name))
        /\ UNCHANGED <<colleges, files, session, pending>>

\* ------------------------------------- verification, request by request
\* crud.verify_student_* reads the student with find_one and then writes
\* with update_one; other requests can be served between the two.

VerifyOps == {"verify_skill", "verify_achievement", "verify_project"}

\* The array and the word of the messages of each admin endpoint.
VerifyField(op) ==
    CASE op = "verify_skill" -> "skills"
      [] op = "verify_achievement" -> "achievements"
      [] op = "verify_project" -> "projects"

VerifyLabel(op) ==
    CASE op = "verify_skill" -> "Skill"
      [] op = "verify_achievement" -> "Achievement"
      [] op = "verify_project" -> "Project"

\* find_one({"roll_no": roll_no}) found the student; the function holds the
\* document it read.
verify_begin(op, roll_no, name) ==
    LET found == Find(students, "roll_no", roll_no)
    IN  /\ op \in VerifyOps
        /\ found # {}
        /\ pending' = pending \cup
              {[op |-> op, req |-> [roll_no |-> roll_no, name |-> name],
                student |-> CHOOSE d \in found : TRUE]}
        /\ UNCHANGED <<colleges, students, files, resp, session>>

\* Mutant: the function marks the item in the document it read and writes
\* the whole array back.
verify_write_WholeArray(coll, p) ==
    LET field == VerifyField(p.op)
        marked == SetFirstVerified({p.student}, p.req.roll_no, field, p.req.name)
        array == (CHOOSE d \in marked.students : TRUE)[field]
        matched == { d \in Find(coll, "roll_no", p.req.roll_no) : d._id = p.student._id }
    IN  IF matched = {} \/ marked.matched_count = 0
        THEN [students |-> coll, matched_count |-> 0, modified_count |-> 0]
        ELSE LET old == CHOOSE d \in matched : TRUE
                 new == [old EXCEPT ![field] = array]
             IN  [students |-> Replace(coll, old, new), matched_count |-> 1,
                  modified_count |-> IF new = old THEN 0 ELSE 1]

\* The update_one of the function, on the collection as it is then.
verify_write(coll, p) ==
    SetFirstVerified(coll, p.req.roll_no, VerifyField(p.op), p.req.name)

\* update_one, the result and the answer of the endpoint.
verify_finish(p) ==
    LET result == verify_write(students, p)
        label == VerifyLabel(p.op)
    IN  /\ p \in pending /\ p.op \in VerifyOps
        /\ pending' = pending \ {p}
        /\ students' = result.students
        /\ resp' = IF result.modified_count > 0
                   THEN Response(p.op, p.req, 200,
                                 label \o " '" \o p.req.name \o "' verified successfully")
                   ELSE Response(p.op, p.req, 404,
                                 label \o " '" \o p.req.name \o "' not found")
        /\ UNCHANGED <<colleges, files, session>>

\* ------------------------------------------------------------ comments

\* crud.add_comment; timestamp is datetime.utcnow().isoformat() as read from
\* the wall clock at the call.
add_comment(roll_no, author, author_type, text, timestamp) ==
    IF Find(students, "roll_no", roll_no) = {}
    THEN [students |-> students, success |-> FALSE, message |-> "Student not found"]
    ELSE LET comment_obj == [author |-> author, author_type |-> author_type,
                             text |-> text, timestamp |-> timestamp]
         IN  [students |-> Push(students, roll_no, "comments", comment_obj),
              success |-> TRUE, message |-> "Comment added successfully"]

\* POST /students/{roll_no}/comments/admin
admin_add_comment(roll_no, text, timestamp) ==
    LET result == add_comment(roll_no, "admin", "admin", text, timestamp)
    IN  /\ students' = result.students
        /\ resp' = Response("admin_add_comment",
                            [roll_no |-> roll_no, text |-> text, timestamp |-> timestamp],
                            IF result.success THEN 200 ELSE 404, result.message)
        /\ UNCHANGED <<colleges, files, session, pending>>

\* POST /students/{roll_no}/comments/student
student_add_comment(roll_no, text, timestamp) ==
    LET req == [roll_no |-> roll_no, text |-> text, timestamp |-> timestamp]
        result == add_comment(roll_no, roll_no, "student", text, timestamp)
    IN  IF get_student_by_roll_no(students, roll_no) = {}
        THEN Rejected("student_add_comment", req, 404, "Student not found")
        ELSE /\ students' = result.students
             /\ resp' = Response("student_add_comment", req,
                                 IF result.success THEN 200 ELSE 404, result.message)
             /\ UNCHANGED <<colleges, files, session, pending>>

\* The list with only the first element of that timestamp dropped.
RECURSIVE Pull_First(_, _)
Pull_First(seq, timestamp) ==
    IF seq = << >> THEN << >>
    ELSE IF Head(seq).timestamp = timestamp THEN Tail(seq)
    ELSE <<Head(seq)>> \o Pull_First(Tail(seq), timestamp)

\* The list after {"$pull": {"timestamp": timestamp}}: every element with
\* that timestamp dropped, the others in their order.
RECURSIVE Pull(_, _)
Pull(seq, timestamp) ==
    IF seq = << >> THEN << >>
    ELSE (IF Head(seq).timestamp = timestamp THEN << >> ELSE <<Head(seq)>>)
             \o Pull(Tail(seq), timestamp)

\* Mutant: success is read from matched_count, the student being found.
delete_comment_Matched(roll_no, timestamp) ==
    LET matched == Find(students, "roll_no", roll_no)
        old == CHOOSE d \in matched : TRUE
        new == [old EXCEPT !.comments = Pull(@, timestamp)]
    IN  IF matched # {}
        THEN [students |-> Replace(students, old, new), success |-> TRUE,
              message |-> "Comment deleted successfully"]
        ELSE [students |-> students, success |-> FALSE,
              message |-> "Comment not found"]

\* crud.delete_comment: {"$pull": {"comments": {"timestamp": timestamp}}}
\* drops every element with that timestamp.
delete_comment(roll_no, timestamp) ==
    LET matched == Find(students, "roll_no", roll_no)
        old == CHOOSE d \in matched : TRUE
        new == [old EXCEPT !.comments = Pull(@, timestamp)]
    IN  IF matched # {} /\ new # old
        THEN [students |-> Replace(students, old, new), success |-> TRUE,
              message |-> "Comment deleted successfully"]
        ELSE [students |-> students, success |-> FALSE,
              message |-> "Comment not found"]

\* DELETE /students/{roll_no}/comments/{timestamp}
delete_student_comment(roll_no, timestamp) ==
    LET result == delete_comment(roll_no, timestamp)
    IN  /\ students' = result.students
        /\ resp' = Response("delete_student_comment",
                            [roll_no |-> roll_no, timestamp |-> timestamp],
                            IF result.success THEN 200 ELSE 404, result.message)
        /\ UNCHANGED <<colleges, files, session, pending>>

\* -------------------------------------------------------- authentication

\* The client has not logged in: its requests carry no Authorization header.
NoToken == [sub |-> "", role |-> "none"]

\* auth.verify_password against the hash of hash_password.
verify_password(plain_password, hashed_password) ==
    hashed_password = hash_password(plain_password)

\* crud.authenticate_student: the documents the credentials open.
authenticate_student(roll_no, password) ==
    { d \in Find(students, "roll_no", roll_no) : verify_password(password, d.password) }

\* crud.authenticate_college_admin
authenticate_college_admin(college_id, admin_password) ==
    { d \in Find(colleges, "college_id", college_id) :
        verify_password(admin_password, d.admin_password) }

\* auth.create_student_token: the claims the signed token carries.
create_student_token(roll_no, name, college_name) == [sub |-> roll_no, role |-> "student"]

\* auth.create_admin_token
create_admin_token(college_id, college_name) == [sub |-> college_id, role |-> "admin"]

\* POST /auth/student/login: the client keeps the token it is given.
student_login(credentials) ==
    LET student == authenticate_student(credentials.roll_no, credentials.password)
        doc == CHOOSE d \in student : TRUE
    IN  /\ session' = IF student = {} THEN session
                      ELSE create_student_token(credentials.roll_no, doc.name,
                                                doc.college_name)
        /\ resp' = IF student = {}
                   THEN Response("student_login", credentials, 401,
                                 "Invalid roll number or password")
                   ELSE Response("student_login", credentials, 200, "Login successful")
        /\ UNCHANGED <<colleges, students, files, pending>>

\* POST /auth/college/login
college_admin_login(credentials) ==
    LET college == authenticate_college_admin(credentials.college_id,
                                              credentials.admin_password)
        doc == CHOOSE d \in college : TRUE
    IN  /\ session' = IF college = {} THEN session
                      ELSE create_admin_token(credentials.college_id, doc.name)
        /\ resp' = IF college = {}
                   THEN Response("college_admin_login", credentials, 401,
                                 "Invalid college ID or password")
                   ELSE Response("college_admin_login", credentials, 200,
                                 "Admin login successful")
        /\ UNCHANGED <<colleges, students, files, pending>>

\* auth.get_current_admin over get_current_user: the status a route that
\* declared the dependency would answer to the token.  No route of main.py
\* declares it.
get_current_admin(token) ==
    IF token.role = "none" \/ token.sub = "" THEN 401
    ELSE IF token.role # "admin" THEN 403
    ELSE 200

\* ------------------------------------------------------ specifications

NoRequest == Response("none", "", 0, "")

Init ==
    /\ colleges = {}
    /\ students = {}
    /\ files = << >>
    /\ resp = NoRequest
    /\ session = NoToken
    /\ pending = {}

\* The college registrations a client may send: every combination of two
\* values per unique field, one of them containing the text "name".
CollegeInputs ==
    [name          : {"IIITNR", "VIT Pune"},
     address       : {"123 Main St"},
     contact_email : {"info@iiitnr.edu", "username@vit.edu"},
     contact_phone : {"9000000001", "9000000002"},
     college_id    : {"COLL001", "rename02"},
     admin_password : {"securePassword123"}]

NextCollege == \E college \in CollegeInputs : register_college(college)

SpecCollege == Init /\ [][NextCollege]_vars

\* The registry of students: one college registers and a second name never
\* does, students choose among two values per unique field, and updates
\* supply one or two fields.
OneCollege == { c \in CollegeInputs :
                  /\ c.name = "IIITNR" /\ c.college_id = "COLL001"
                  /\ c.contact_email = "info@iiitnr.edu"
                  /\ c.contact_phone = "9000000001" }

StudentInputs ==
    [college_name : {"IIITNR", "VIT Pune"},
     name         : {"Jane Smith"},
     email        : {"jane@x.edu", "john@x.edu"},
     phone        : {"9111111111", "9222222222"},
     roll_no      : {"CS101", "phone42"},
     password     : {"studentPassword123"},
     branch       : {"Computer Science"},
     year         : {2},
     age          : {20}]

RollNos == { s.roll_no : s \in StudentInputs }

UpdateInputs ==
    { << >> }
        \cup [email : {"jane@x.edu", "john@x.edu"}]
        \cup [phone : {"9111111111", "9222222222"}]
        \cup [roll_no : RollNos]
        \cup [college_name : {"VIT Pune"}]
        \cup [name : {"Jane Smith", "J S"}, email : {"john@x.edu"}]

Next ==
    \/ \E college \in OneCollege : register_college(college)
    \/ \E student \in StudentInputs : create_student(student)
    \/ \E roll_no \in RollNos, u \in UpdateInputs : update_student(roll_no, u)
    \/ \E roll_no \in RollNos : delete_student(roll_no)

Spec == Init /\ [][Next]_vars

\* The students of the specifications below: one student at a time (one
\* email), registered under either of two roll numbers.
MaxItems == 2

MaxComments == 2

ItemStudents ==
    [college_name : {"IIITNR"},
     name         : {"Jane Smith"},
     email        : {"jane@x.edu"},
     phone        : {"9111111111"},
     roll_no      : {"CS101", "CS102"},
     password     : {"studentPassword123"},
     branch       : {"Computer Science"},
     year         : {2},
     age          : {20}]

ItemRollNos == { st.roll_no : st \in ItemStudents }

\* The items of the student with this roll number.
ItemCount(roll_no) ==
    LET found == Find(students, "roll_no", roll_no)
        d == CHOOSE x \in found : TRUE
    IN  IF found = {} THEN 0
        ELSE Len(d.skills) + Len(d.achievements) + Len(d.projects)

\* The comments of the student with this roll number.
CommentCount(roll_no) ==
    LET found == Find(students, "roll_no", roll_no)
    IN  IF found = {} THEN 0 ELSE Len((CHOOSE x \in found : TRUE).comments)

\* Skills and their verification: two skill names, so that a student may
\* hold one name twice, both names, or a name the request does not ask for.
SkillNames == {"Python", "C++"}

NextVerify ==
    \/ \E college \in OneCollege : register_college(college)
    \/ \E student \in ItemStudents : create_student(student)
    \/ \E roll_no \in ItemRollNos : delete_student(roll_no)
    \/ \E roll_no \in ItemRollNos, n \in SkillNames :
            ItemCount(roll_no) < MaxItems /\ add_skill(roll_no, n, None, NoUpload)
    \/ \E roll_no \in ItemRollNos, n \in SkillNames : verify_skill(roll_no, n)

SpecVerify == Init /\ [][NextVerify]_vars

\* Projects: links that name a host in either case, and links that name none.
Links == {"https://GitHub.com/u/erp", "gitlab.com/u/erp", "",
          "https://bitbucket.org/u/erp", "https://github.io/gitlab"}

NextProjects ==
    \/ \E college \in OneCollege : register_college(college)
    \/ \E student \in ItemStudents : create_student(student)
    \/ \E roll_no \in ItemRollNos : delete_student(roll_no)
    \/ \E roll_no \in ItemRollNos, l \in Links :
            ItemCount(roll_no) < MaxItems /\ add_project(roll_no, "erp", l)
    \/ \E roll_no \in ItemRollNos : verify_project(roll_no, "erp")

SpecProjects == Init /\ [][NextProjects]_vars

\* Comments: two instants at which comments are written and a third at
\* which none is.
Timestamps == {"2025-01-01T10:00:00.000001", "2025-01-01T10:00:00.000002"}

NoSuchTimestamp == "2025-01-01T10:00:00.000003"

NextComments ==
    \/ \E college \in OneCollege : register_college(college)
    \/ \E student \in ItemStudents : create_student(student)
    \/ \E roll_no \in ItemRollNos : delete_student(roll_no)
    \/ \E roll_no \in ItemRollNos, t \in Timestamps :
            CommentCount(roll_no) < MaxComments
                /\ admin_add_comment(roll_no, "Great progress on this project!", t)
    \/ \E roll_no \in ItemRollNos, t \in Timestamps :
            CommentCount(roll_no) < MaxComments
                /\ student_add_comment(roll_no, "Thank you", t)
    \/ \E roll_no \in ItemRollNos, t \in Timestamps \cup {NoSuchTimestamp} :
            delete_student_comment(roll_no, t)

SpecComments == Init /\ [][NextComments]_vars

\* One student's record over its life: one item name of each kind, their
\* verification, a certificate upload, a change of roll number, comments,
\* deletion and a new registration.
\* A certificate of Jane Smith for Python, as the models read it.
Accepted == Image("yes, this is a certificate", "Certificate of Python awarded to Jane Smith",
                  <<95, 90>>)

\* A picture that the caption model does not take for a document.
Refused == Image("a photo of a cat", "", << >>)

Uploads ==
    { [filename |-> "cert.PNG", bytes |-> Accepted],
      [filename |-> "cert.png", bytes |-> Refused] }

\* The identity card of Jane Smith, roll number CS101.
IdCard == [filename |-> "id.jpg",
           bytes |-> Image("yes", "IIITNR Jane Smith CS-101", <<90>>)]

NextItems ==
    \/ \E college \in OneCollege : register_college(college)
    \/ \E student \in ItemStudents : create_student(student)
    \/ \E roll_no \in ItemRollNos, u \in [roll_no : ItemRollNos] :
            update_student(roll_no, u)
    \/ \E roll_no \in ItemRollNos : delete_student(roll_no)
    \/ \E c \in Uploads :
            ItemCount("CS101") < MaxItems /\ add_skill("CS101", "Python", "  ", c)
    \/ \E roll_no \in ItemRollNos :
            ItemCount(roll_no) < MaxItems
                /\ add_achievement(roll_no, "Hackathon", "SIH - Hackathon", NoUpload)
    \/ upload_college_id("CS101", IdCard)
    \/ \E roll_no \in ItemRollNos, l \in {"https://GitHub.com/u/erp"} :
            ItemCount(roll_no) < MaxItems /\ add_project(roll_no, "erp", l)
    \/ \E roll_no \in ItemRollNos : verify_skill(roll_no, "Python")
    \/ \E roll_no \in ItemRollNos : verify_achievement(roll_no, "Hackathon")
    \/ \E roll_no \in ItemRollNos : verify_project(roll_no, "erp")
    \/ CommentCount("CS101") < MaxComments
            /\ admin_add_comment("CS101", "Great progress on this project!",
                                 "2025-01-01T10:00:00.000001")
    \/ delete_student_comment("CS101", "2025-01-01T10:00:00.000001")

SpecItems == Init /\ [][NextItems]_vars

\* Logins and verification: a client that holds no token, a student token
\* or an admin token adds items and asks for their verification.
Credentials ==
    [roll_no : {"CS101"}, password : {"studentPassword123", "guess99"}]

AdminCredentials ==
    [college_id : {"COLL001"}, admin_password : {"securePassword123", "guess99"}]

NextAuth ==
    \/ \E college \in OneCollege : register_college(college)
    \/ \E student \in ItemStudents : create_student(student)
    \/ \E credentials \in Credentials : student_login(credentials)
    \/ \E credentials \in AdminCredentials : college_admin_login(credentials)
    \/ ItemCount("CS101") < MaxItems /\ add_skill("CS101", "Python", None, NoUpload)
    \/ ItemCount("CS101") < MaxItems
            /\ add_achievement("CS101", "Hackathon", None, NoUpload)
    \/ ItemCount("CS101") < MaxItems
            /\ add_project("CS101", "erp", "https://github.com/u/erp")
    \/ verify_skill("CS101", "Python")
    \/ verify_achievement("CS101", "Hackathon")
    \/ verify_project("CS101", "erp")

SpecAuth == Init /\ [][NextAuth]_vars

\* Uploads: certificates and identity cards that the heuristic accepts,
\* rejects at each stage, or fails on, sent again and again for the same
\* targets, so that a later upload meets the file of an earlier one.
Reissued == Image("Yes", "PYTHON course certificate - Jane Smith - IIITNR", <<80>>)

CertificateImages ==
    { Accepted, Reissued, Refused,
      Image("certificate", "", << >>),
      Image("yes", "Certificate of Python awarded to John Doe", <<80>>),
      Broken(Accepted, "preprocess", "cannot identify image file"),
      Broken(Accepted, "ocr", "OCR engine failure") }

CertificateUploads ==
    [filename : {"cert.png"}, bytes : CertificateImages]
        \cup {[filename |-> "notes.txt", bytes |-> Accepted]}

IdCardUploads ==
    [filename : {"id.jpg"},
     bytes : { IdCard.bytes, Refused,
               Image("student id", "IIITNR Jane Smith", <<70>>),
               Broken(IdCard.bytes, "caption", "caption model not loaded"),
               Broken(IdCard.bytes, "match", "'full_text'") }]

NextUploads ==
    \/ \E college \in OneCollege : register_college(college)
    \/ \E student \in ItemStudents : student.roll_no = "CS101" /\ create_student(student)
    \/ delete_student("CS101")
    \/ \E c \in CertificateUploads, description \in {None, "IIITNR - Python"} :
            ItemCount("CS101") < MaxItems /\ add_skill("CS101", "Python", description, c)
    \/ \E c \in CertificateUploads :
            ItemCount("CS101") < MaxItems /\ add_achievement("CS101", "Python", None, c)
    \/ \E c \in IdCardUploads : upload_college_id("CS101", c)

SpecUploads == Init /\ [][NextUploads]_vars

\* Uploads against deletion: accepted uploads in flight while the student
\* is deleted and registered again.
MaxPending == 2

NextRace ==
    \/ \E college \in OneCollege : register_college(college)
    \/ \E student \in ItemStudents : student.roll_no = "CS101" /\ create_student(student)
    \/ delete_student("CS101")
    \/ Cardinality(pending) < MaxPending /\ upload_college_id_begin("CS101", IdCard)
    \/ \E c \in Uploads :
            Cardinality(pending) < MaxPending /\ add_skill_begin("CS101", "Python", None, c)
    \/ \E c \in Uploads :
            Cardinality(pending) < MaxPending
                /\ add_achievement_begin("CS101", "Python", None, c)
    \/ \E p \in pending : upload_college_id_finish(p)
    \/ \E p \in pending : ItemCount(p.req.roll_no) < MaxItems /\ add_item_finish(p)

SpecRace == Init /\ [][NextRace]_vars

\* Verifications in flight together: two skills of one student, each
\* verified by requests of its own.
Holds(roll_no, field, name) ==
    \E d \in students : /\ d.roll_no = roll_no
                        /\ \E i \in 1..Len(d[field]) : d[field][i].name = name

NextConcurrentVerify ==
    \/ \E college \in OneCollege : register_college(college)
    \/ \E student \in ItemStudents : student.roll_no = "CS101" /\ create_student(student)
    \/ \E n \in SkillNames :
            ~ Holds("CS101", "skills", n) /\ add_skill("CS101", n, None, NoUpload)
    \/ \E n \in SkillNames :
            Cardinality(pending) < MaxPending /\ verify_begin("verify_skill", "CS101", n)
    \/ \E q \in pending : verify_finish(q)

SpecConcurrentVerify == Init /\ [][NextConcurrentVerify]_vars

\* The verification functions on their own: every combination of what the
\* caption model and the OCR model may answer on an image, of the call that
\* may raise on it, and of the expected name, roll number, skill and
\* description.
IdCaptions ==
    {"Yes, this is a student ID", "No, this is not an ID", "a photo of a cat", "No"}

CertificateCaptions ==
    {"Yes, this is a certificate", "an Award", "a photo of a cat", "No"}

OcrTexts ==
    {"", " ", "jane smith cs101", "IIITNR Jane Smith CS-101 Certificate of Python",
     "Jo Li Smith 2021", "John Doe XY77"}

\* The texts read from identity cards: those, and texts that hold the
\* characters of a roll number apart from one another.
IdTexts == OcrTexts \cup {"jane smith 2021 cse", "Jane Doe 1c", "Jane Doe 1"}

TokenScores == {<< >>, <<95, 90>>}

RaisingCalls == {"", "preprocess", "caption", "ocr", "match"}

Photo(caption, full_text, confidence_scores, call) ==
    IF call = "" THEN Image(caption, full_text, confidence_scores)
    ELSE Broken(Image(caption, full_text, confidence_scores), call, "failure in " \o call)

StudentNames == {"Jane Smith", "Jo Li Smith", "Jane Doe", "Jane K Smith Iiitnr M", "   "}

RollNumbers == {"CS101", "XY-77", "--"}

Descriptions ==
    {None, "IIITNR - Python", "MIT - Go", "IIT Delhi - Python - Advanced", "Python course"}

\* The calls of the two verification functions that may be made.
Calls ==
    { [op |-> "verify_college_id_with_ai",
       req |-> [image_bytes |-> Photo(caption, full_text, <<90>>, call),
                student_name |-> student_name, roll_no |-> roll_no]] :
        caption \in IdCaptions, full_text \in IdTexts, call \in RaisingCalls,
        student_name \in StudentNames, roll_no \in RollNumbers }
    \cup
    { [op |-> "verify_certificate_with_ai",
       req |-> [image_bytes |-> Photo(caption, full_text, t[1], call),
                student_name |-> student_name, skill_or_achievement |-> t[2],
                description |-> t[3]]] :
        caption \in CertificateCaptions, full_text \in OcrTexts, call \in RaisingCalls,
        student_name \in StudentNames,
        t \in TokenScores \X SkillNames \X Descriptions }

\* One call is about to be made.
InitHeuristic ==
    /\ colleges = {}
    /\ students = {}
    /\ files = << >>
    /\ resp = NoRequest
    /\ session = NoToken
    /\ pending \in { {c} : c \in Calls }

call_verify_college_id(p) ==
    /\ p \in pending /\ p.op = "verify_college_id_with_ai"
    /\ resp' = [op |-> p.op, req |-> p.req, status |-> 0,
                detail |-> verify_college_id_with_ai(p.req.image_bytes, "image/jpeg",
                                                     p.req.student_name, p.req.roll_no)]
    /\ pending' = pending \ {p}
    /\ UNCHANGED <<colleges, students, files, session>>

call_verify_certificate(p) ==
    /\ p \in pending /\ p.op = "verify_certificate_with_ai"
    /\ \E v \in verify_certificate_with_ai(p.req.image_bytes, "image/png",
                                           p.req.student_name, p.req.skill_or_achievement,
                                           p.req.description) :
          resp' = [op |-> p.op, req |-> p.req, status |-> 0, detail |-> v]
    /\ pending' = pending \ {p}
    /\ UNCHANGED <<colleges, students, files, session>>

NextHeuristic ==
    \/ \E p \in pending : call_verify_college_id(p)
    \/ \E p \in pending : call_verify_certificate(p)

SpecHeuristic == InitHeuristic /\ [][NextHeuristic]_vars

\* Updates among two students: one gathers a skill, a comment and an
\* identity card while either is updated with no field, one field or two.
TwoStudents ==
    { s \in StudentInputs :
        /\ s.college_name = "IIITNR"
        /\ \/ s.roll_no = "CS101" /\ s.email = "jane@x.edu" /\ s.phone = "9111111111"
           \/ s.roll_no = "phone42" /\ s.email = "john@x.edu" /\ s.phone = "9222222222" }

FrameUpdates ==
    { << >> }
        \cup [name : {"Jane A Smith"}]
        \cup [college_id_pic : {"other.jpg"}]
        \cup [branch : {"Physics"}, year : {3}]

NextUpdate ==
    \/ \E college \in OneCollege : register_college(college)
    \/ \E student \in TwoStudents : create_student(student)
    \/ ~ Holds("CS101", "skills", "Python") /\ add_skill("CS101", "Python", None, NoUpload)
    \/ CommentCount("CS101") < MaxComments - 1
            /\ admin_add_comment("CS101", "Good work", "2024-01-01T10:00:00")
    \/ upload_college_id("CS101", IdCard)
    \/ \E roll_no \in RollNos, u \in FrameUpdates : update_student(roll_no, u)

SpecUpdate == Init /\ [][NextUpdate]_vars

\* The admin's round: students with up to MaxItems items, two of them with the
\* same name or not, some verified one by one, and the round through the
\* list of one student.
NextReview ==
    \/ \E college \in OneCollege : register_college(college)
    \/ \E student \in ItemStudents : create_student(student)
    \/ \E roll_no \in ItemRollNos, n \in SkillNames :
            ItemCount(roll_no) < MaxItems /\ add_skill(roll_no, n, None, NoUpload)
    \/ ItemCount("CS101") < MaxItems
            /\ add_achievement("CS101", "Hackathon", "SIH - Hackathon", NoUpload)
    \/ ItemCount("CS101") < MaxItems /\ add_project("CS101", "erp", "https://GitHub.com/u/erp")
    \/ \E roll_no \in ItemRollNos, n \in SkillNames : verify_skill(roll_no, n)
    \/ \E roll_no \in ItemRollNos, college_name \in {None, "iiitnr"} :
            verify_listed(roll_no, college_name)

SpecReview == Init /\ [][NextReview]_vars

\* The identity card against updates and deletion: uploads of the card of
\* CS101 in flight while the student is given another roll number, deleted
\* or registered again.
NextPicture ==
    \/ \E college \in OneCollege : register_college(college)
    \/ \E student \in ItemStudents : create_student(student)
    \/ \E roll_no \in ItemRollNos, u \in [roll_no : ItemRollNos] :
            update_student(roll_no, u)
    \/ \E roll_no \in ItemRollNos : delete_student(roll_no)
    \/ Cardinality(pending) < MaxPending /\ upload_college_id_begin("CS101", IdCard)
    \/ \E p \in pending : upload_college_id_finish(p)

SpecPicture == Init /\ [][NextPicture]_vars

\* File names: the identity card of CS101 and certificates of items whose
\* names differ in a character that is neither a letter nor a digit, or read
\* "College ID".
NamedItems == {"Python", "Node.js", "Node js", "College ID"}

\* A certificate of Jane Smith that names every item of NamedItems.
Diploma == [filename |-> "diploma.jpeg",
            bytes |-> Image("a certificate of achievement",
                            "Jane Smith Python Node.js Node js College ID", <<99>>)]

NextNames ==
    \/ \E college \in OneCollege : register_college(college)
    \/ \E student \in ItemStudents : student.roll_no = "CS101" /\ create_student(student)
    \/ upload_college_id("CS101", IdCard)
    \/ \E n \in NamedItems :
            ItemCount("CS101") < MaxItems /\ add_skill("CS101", n, None, Diploma)
    \/ \E n \in NamedItems :
            ItemCount("CS101") < MaxItems /\ add_achievement("CS101", n, None, Diploma)

SpecNames == Init /\ [][NextNames]_vars

\* Comments of two students: each gathers up to MaxComments comments, by the
\* admin and, for one of them, by the student, two of them under one
\* timestamp or not, and comments are deleted by timestamp.
NextPull ==
    \/ \E college \in OneCollege : register_college(college)
    \/ \E student \in TwoStudents : create_student(student)
    \/ \E student \in TwoStudents, t \in Timestamps :
            CommentCount(student.roll_no) < MaxComments
                /\ admin_add_comment(student.roll_no, "Great progress on this project!", t)
    \/ \E t \in Timestamps :
            CommentCount("CS101") < MaxComments
                /\ student_add_comment("CS101", "Thank you", t)
    \/ \E student \in TwoStudents, t \in Timestamps \cup {NoSuchTimestamp} :
            delete_student_comment(student.roll_no, t)

SpecPull == Init /\ [][NextPull]_vars

\* ------------------------------------------------------------- claims

\* The fields of a registration that some stored college already holds.
TakenCollegeFields(college) ==
    { f \in {"name", "college_id", "contact_email", "contact_phone"} :
        \E d \in colleges : d[f] = college[f] }

\* The fields of a registration that some stored student already holds.
TakenStudentFields(student) ==
    { f \in {"email", "phone", "roll_no"} : \E d \in students : d[f] = student[f] }

\* The message that tells a client which college field collided.
CollegeFieldMessage(f, college) ==
    CASE f = "name" -> "College name '" \o college.name \o "' already exists"
      [] f = "college_id" -> "College ID '" \o college.college_id \o "' already exists"
      [] f = "contact_email" ->
            "Contact email '" \o college.contact_email \o "' already exists"
      [] f = "contact_phone" ->
            "Contact phone '" \o college.contact_phone \o "' already exists"

\* The message that tells a client which student field collided.
StudentFieldMessage(f, student) ==
    CASE f = "email" -> "Email '" \o student.email \o "' already exists"
      [] f = "phone" -> "Phone number '" \o student.phone \o "' already exists"
      [] f = "roll_no" -> "Roll number '" \o student.roll_no \o "' already exists"

\* C2: a POST /students/ whose college_name is the name of no registered
\* college is answered 400 and leaves the students collection as it was.
C2_UnregisteredCollegeRejected ==
    [][ (/\ resp'.op = "create_student"
         /\ \A c \in colleges : c.name # resp'.req.college_name)
            => (resp'.status = 400 /\ students' = students) ]_vars

\* C2 witness: with a student stored, a registration for a college nobody
\* registered was refused.
C2_Witness ==
    /\ resp.op = "create_student"
    /\ resp.status = 400
    /\ \A c \in colleges : c.name # resp.req.college_name
    /\ students # {}

\* C3: no two stored colleges share a name, a college_id, a contact_email or
\* a contact_phone.
C3_CollegesUnique ==
    \A c1, c2 \in colleges :
        c1 # c2 => /\ c1.name # c2.name
                   /\ c1.college_id # c2.college_id
                   /\ c1.contact_email # c2.contact_email
                   /\ c1.contact_phone # c2.contact_phone

\* C3 witness: two colleges are stored and a third registration, which
\* shares a field with one of them, was refused.
C3_Witness ==
    /\ Cardinality(colleges) = 2
    /\ resp.op = "register_college"
    /\ resp.status = 400
    /\ TakenCollegeFields(resp.req) # {}

\* C4: no two stored students share an email, a phone or a roll_no.
C4_StudentsUnique ==
    \A s1, s2 \in students :
        s1 # s2 => /\ s1.email # s2.email
                   /\ s1.phone # s2.phone
                   /\ s1.roll_no # s2.roll_no

\* C4 witness: two students are stored and an update that would have given
\* one of them a value of the other has been answered.
C4_Witness ==
    /\ Cardinality(students) = 2
    /\ resp.op = "update_student"
    /\ \E f \in {"email", "phone", "roll_no"} \cap DOMAIN resp.req.update :
          \E d \in students : /\ d.roll_no # resp.req.roll_no
                              /\ d[f] = resp.req.update[f]

\* C5: a registration that duplicates a stored college in exactly one
\* unique field is answered 400 with the message naming that field, and the
\* colleges collection is unchanged.
C5_CollegeDuplicateNamesField ==
    [][ \A f \in {"name", "college_id", "contact_email", "contact_phone"} :
          (resp'.op = "register_college" /\ TakenCollegeFields(resp'.req) = {f})
            => /\ resp'.status = 400
               /\ resp'.detail = CollegeFieldMessage(f, resp'.req)
               /\ colleges' = colleges ]_vars

\* C6: a registration that duplicates a stored student in exactly one of
\* email, phone, roll_no is answered 400 with the message naming that field,
\* and the students collection is unchanged.
C6_StudentDuplicateNamesField ==
    [][ \A f \in {"email", "phone", "roll_no"} :
          (/\ resp'.op = "create_student"
           /\ \E c \in colleges : c.name = resp'.req.college_name
           /\ TakenStudentFields(resp'.req) = {f})
            => /\ resp'.status = 400
               /\ resp'.detail = StudentFieldMessage(f, resp'.req)
               /\ students' = students ]_vars

\* An update of the student with this roll number that sets a unique field
\* to a value another student holds.
UpdateCollides(roll_no, update) ==
    \E target \in students :
        /\ target.roll_no = roll_no
        /\ \E f \in {"email", "phone", "roll_no"} \cap DOMAIN update :
              \E other \in students \ {target} : other[f] = update[f]

\* C7: a PUT /students/{roll_no} that would break uniqueness is answered 400
\* with a message, and no student record changes.
C7_UpdateDuplicateIs400 ==
    [][ (/\ resp'.op = "update_student"
         /\ UpdateCollides(resp'.req.roll_no, resp'.req.update))
            => (resp'.status = 400 /\ students' = students) ]_vars
\* The student with this roll number holds a skill of this name.
HasSkill(roll_no, name) ==
    \E d \in students : /\ d.roll_no = roll_no
                        /\ \E i \in 1..Len(d.skills) : d.skills[i].name = name

\* C1: verify_student_skill for a skill the student holds is answered with
\* success, also when the skill is verified already, and afterwards a skill
\* of that name is verified; "not found" is for names the student lacks.
C1_VerifySkillIdempotent ==
    [][ (/\ resp'.op = "verify_skill"
         /\ HasSkill(resp'.req.roll_no, resp'.req.name))
            => /\ resp'.status = 200
               /\ \E d \in students' :
                     /\ d.roll_no = resp'.req.roll_no
                     /\ \E i \in 1..Len(d.skills) :
                           d.skills[i].name = resp'.req.name /\ d.skills[i].verified
       ]_vars

\* The link names github.com or gitlab.com in some mix of cases.
NamesHost(link) ==
    \E i \in 1..Len(link), j \in 1..Len(link) :
        Lower(SubSeq(link, i, j)) \in {"github.com", "gitlab.com"}

\* C8: add_projects with a link that names neither host, the empty link
\* included, is answered with the literal message and writes nothing,
\* whether or not the student exists.
C8_InvalidLinkRejected ==
    [][ (resp'.op = "add_project" /\ ~ NamesHost(resp'.req.github_link))
            => /\ resp'.status = 400
               /\ resp'.detail = "Invalid repository link. Must be from GitHub or GitLab"
               /\ students' = students ]_vars

\* C8 witness: a student who holds a project was refused a link that names
\* no host.
C8_Witness ==
    /\ resp.op = "add_project"
    /\ resp.status = 400
    /\ ~ NamesHost(resp.req.github_link)
    /\ resp.req.github_link # ""
    /\ \E d \in students : d.roll_no = resp.req.roll_no /\ Len(d.projects) = 1

\* C9: delete_comment with a timestamp none of the student's comments
\* carries reports "Comment not found" and leaves the comments as they were.
C9_DeleteMissingComment ==
    [][ (/\ resp'.op = "delete_student_comment"
         /\ \E d \in students :
               /\ d.roll_no = resp'.req.roll_no
               /\ \A i \in 1..Len(d.comments) :
                     d.comments[i].timestamp # resp'.req.timestamp)
            => /\ resp'.status = 404
               /\ resp'.detail = "Comment not found"
               /\ students' = students ]_vars

\* C9 witness: a student with two comments was asked to delete a timestamp
\* that neither carries.
C9_Witness ==
    /\ resp.op = "delete_student_comment"
    /\ resp.detail = "Comment not found"
    /\ \E d \in students :
          /\ d.roll_no = resp.req.roll_no
          /\ Len(d.comments) = 2
          /\ \A i \in 1..Len(d.comments) : d.comments[i].timestamp # resp.req.timestamp

ItemFields == {"skills", "achievements", "projects"}

\* C10: while a student record exists, its item lists only grow, a new item
\* is unverified, and a verified item stays verified; a new record holds no
\* item.
C10_VerifiedOnlyRises ==
    [][ \A e \in students' : \A f \in ItemFields :
          IF \E d \in students : d._id = e._id
          THEN LET d == CHOOSE x \in students : x._id = e._id
               IN  /\ Len(e[f]) >= Len(d[f])
                   /\ \A i \in 1..Len(d[f]) : d[f][i].verified => e[f][i].verified
                   /\ \A i \in (Len(d[f]) + 1)..Len(e[f]) : ~ e[f][i].verified
          ELSE e[f] = << >> ]_vars

\* C10 witness: the roll number of a student with a verified skill has been
\* changed, and the student holds an unverified item added after that skill.
C10_Witness ==
    /\ resp.op = "update_student"
    /\ "roll_no" \in DOMAIN resp.req.update
    /\ \E d \in students :
          /\ d.roll_no = resp.req.update.roll_no
          /\ d.roll_no # resp.req.roll_no
          /\ Len(d.skills) = 1 /\ d.skills[1].verified
          /\ Len(d.achievements) = 1 /\ ~ d.achievements[1].verified

\* Some item of a record that exists before and after the step was
\* unverified before it and is verified after it.
BecomesVerified ==
    \E d \in students, e \in students' :
        /\ d._id = e._id
        /\ \E f \in ItemFields : \E i \in 1..Len(d[f]) :
              i <= Len(e[f]) /\ ~ d[f][i].verified /\ e[f][i].verified

\* C11: an item becomes verified only in a step requested by a client that
\* holds an admin token; with no token or a student token nothing becomes
\* verified.
C11_VerifiedByAdminOnly ==
    [][ BecomesVerified => get_current_admin(session) = 200 ]_vars

UploadOps == {"upload_college_id", "add_skill", "add_achievement"}

\* The file part of an upload request.
UploadOf(r) ==
    IF r.op = "upload_college_id" THEN r.req.college_id_pic ELSE r.req.certificate

\* The request is an upload that reaches the verification heuristic: a file
\* of an allowed type for a student the collection holds.
ReachesVerification(r, coll) ==
    /\ r.op \in UploadOps
    /\ UploadOf(r).filename # ""
    /\ Find(coll, "roll_no", r.req.roll_no) # {}
    /\ FileExt(UploadOf(r).filename) \in
          (IF r.op = "upload_college_id" THEN IdCardExtensions ELSE CertificateExtensions)

\* What the heuristic may answer to the request's file.
VerdictOn(r, coll) ==
    LET d == CHOOSE x \in Find(coll, "roll_no", r.req.roll_no) : TRUE
    IN  IF r.op = "upload_college_id"
        THEN {verify_college_id_with_ai(UploadOf(r).bytes, "", d.name, r.req.roll_no)}
        ELSE verify_certificate_with_ai(UploadOf(r).bytes, "", d.name, r.req.name,
                                        r.req.description)

\* C12: an upload whose verification is not accepted, an exception inside
\* it included, leaves every file and every student record as it was.
C12_RejectedUploadWritesNothing ==
    [][ (/\ ReachesVerification(resp', students)
         /\ \A v \in VerdictOn(resp', students) : ~ v.is_valid)
            => (files' = files /\ students' = students) ]_vars

\* C12 witness: a certificate of a skill was rejected while the file of an
\* earlier, accepted upload for the same skill was in place, and is still.
C12_Witness ==
    /\ resp.op = "add_skill"
    /\ resp.status = 400
    /\ ReachesVerification(resp, students)
    /\ \A v \in VerdictOn(resp, students) : ~ v.is_valid
    /\ UploadPath("CS101", "python") \in DOMAIN files
    /\ files[UploadPath("CS101", "python")] # resp.req.certificate.bytes

\* The step finishes the upload p, and the record update in it fails: no
\* student carries the roll number when the file has been saved.
LateFailure(p) ==
    /\ p \in pending /\ p \notin pending'
    /\ p.op \in UploadOps
    /\ Find(students, "roll_no", p.req.roll_no) = {}

\* The file an upload request saves.
SavedPath(p) ==
    UploadPath(p.req.roll_no,
               IF p.op = "upload_college_id" THEN "college_id" ELSE CleanName(p.req.name))

\* C13: when the record update of an upload fails after the file was saved,
\* the request answers an error and the file is gone when it returns.
C13_LateFailureRemovesFile ==
    [][ \A p \in pending :
            LateFailure(p) => (/\ resp'.status >= 400
                               /\ SavedPath(p) \notin DOMAIN files') ]_vars

\* The first position of an item of that name in the list, 0 if none.
FirstNamed(list, name) ==
    LET at == { i \in 1..Len(list) : list[i].name = name }
    IN  IF at = {} THEN 0 ELSE CHOOSE i \in at : \A j \in at : i <= j

\* C14: a verify request that completes while another is in flight leaves
\* its item verified and changes nothing else: no other item of the record,
\* no other field, no other record; so after both complete both items are
\* verified.
C14_ConcurrentVerifyKeepsOthers ==
    [][ \A q \in pending :
          (/\ q \notin pending' /\ q.op \in VerifyOps
           /\ \E d \in students : /\ d.roll_no = q.req.roll_no
                                  /\ FirstNamed(d[VerifyField(q.op)], q.req.name) > 0)
          => LET d == CHOOSE x \in students : x.roll_no = q.req.roll_no
                 f == VerifyField(q.op)
                 k == FirstNamed(d[f], q.req.name)
             IN  students' = (students \ {d}) \cup {[d EXCEPT ![f][k].verified = TRUE]}
       ]_vars

\* C14 witness: both skills have been verified by requests of their own
\* while a request that read the student before either was verified is
\* still in flight.
C14_Witness ==
    /\ resp.op = "verify_skill" /\ resp.status = 200
    /\ pending # {}
    /\ \E d \in students :
          /\ Len(d.skills) = 2
          /\ d.skills[1].name # d.skills[2].name
          /\ d.skills[1].verified /\ d.skills[2].verified
          /\ \A q \in pending :
                /\ q.student._id = d._id
                /\ Len(q.student.skills) = 2
                /\ ~ q.student.skills[1].verified /\ ~ q.student.skills[2].verified

\* The caption of the request holds none of the keywords.
NoKeyword(keywords) ==
    \A keyword \in keywords : ~ Contains(Lower(resp.req.image_bytes.caption), keyword)

\* The caption model was reached and has answered.
Captioned == resp.req.image_bytes.raises \notin {"preprocess", "caption"}

\* C15: a caption that holds none of "yes", "id", "student" (identity cards)
\* or none of "yes", "certificate", "award" (certificates) is rejected as not
\* being such a document whatever the OCR call would return or raise; for a
\* certificate image_type_match and overall_confidence are 0.
C15_CaptionGate ==
    /\ (/\ resp.op = "verify_college_id_with_ai"
        /\ Captioned /\ NoKeyword({"yes", "id", "student"}))
       => /\ ~ resp.detail.raised /\ ~ resp.detail.is_valid
          /\ resp.detail.message
                = "The uploaded image does not appear to be a valid college ID card"
    /\ (/\ resp.op = "verify_certificate_with_ai"
        /\ Captioned /\ NoKeyword({"yes", "certificate", "award"}))
       => /\ ~ resp.detail.raised /\ ~ resp.detail.is_valid
          /\ resp.detail.message
                = "The uploaded image does not appear to be a valid certificate"
          /\ resp.detail.extra.image_type_match = 0
          /\ resp.detail.extra.overall_confidence = 0

\* C15 witness: a certificate whose caption holds no keyword is rejected at
\* the gate although its text names the student and the skill and the OCR
\* call would have raised.
C15_Witness ==
    /\ resp.op = "verify_certificate_with_ai"
    /\ resp.req.image_bytes.caption = "a photo of a cat"
    /\ resp.req.image_bytes.raises = "ocr"
    /\ resp.req.image_bytes.full_text = "IIITNR Jane Smith CS-101 Certificate of Python"
    /\ resp.req.student_name = "Jane Smith"
    /\ resp.req.skill_or_achievement = "Python"
    /\ ~ resp.detail.is_valid
    /\ resp.detail.extra.overall_confidence = 0

\* C16: an identity card on which the caption model answers "No, this is not
\* an ID" is rejected as not being an identity card, whatever the OCR text.
C16_NoAnswerRejectsIdCard ==
    (/\ resp.op = "verify_college_id_with_ai"
     /\ resp.req.image_bytes.caption = "No, this is not an ID"
     /\ resp.req.image_bytes.raises = "")
    => /\ ~ resp.detail.is_valid
       /\ resp.detail.message
             = "The uploaded image does not appear to be a valid college ID card"

\* The answer "No, this is not an ID" on a card whose text holds the name and
\* the roll number of the student.
C16_Accepted ==
    /\ resp.op = "verify_college_id_with_ai"
    /\ resp.req.image_bytes.caption = "No, this is not an ID"
    /\ resp.req.student_name = "Jane Smith" /\ resp.req.roll_no = "CS101"
    /\ resp.detail.is_valid

\* The caption of the request holds one of the keywords.
SomeKeyword(keywords) ==
    \E keyword \in keywords : Contains(Lower(resp.req.image_bytes.caption), keyword)

\* C17: when no call raises, the caption passes the gate and the OCR text is
\* the empty string, the identity card and the certificate are rejected with
\* the message that no text could be extracted, whatever the name, roll
\* number, skill or description.
C17_EmptyTextRejected ==
    /\ (/\ resp.op = "verify_college_id_with_ai"
        /\ resp.req.image_bytes.raises = ""
        /\ SomeKeyword({"yes", "id", "student"})
        /\ resp.req.image_bytes.full_text = "")
       => /\ ~ resp.detail.is_valid
          /\ resp.detail.message
                = "Could not extract any text from the ID card. Please upload a clearer image"
    /\ (/\ resp.op = "verify_certificate_with_ai"
        /\ resp.req.image_bytes.raises = ""
        /\ SomeKeyword({"yes", "certificate", "award"})
        /\ resp.req.image_bytes.full_text = "")
       => /\ ~ resp.detail.is_valid
          /\ resp.detail.message
                = "Could not extract any text from the certificate. Please upload a clearer image"

\* C17 witness: a certificate with a passing caption and no text is rejected
\* for a student whose name has no token to match.
C17_Witness ==
    /\ resp.op = "verify_certificate_with_ai"
    /\ resp.req.image_bytes.caption = "an Award"
    /\ resp.req.image_bytes.raises = ""
    /\ resp.req.image_bytes.full_text = ""
    /\ resp.req.student_name = "   "
    /\ resp.req.description = "IIITNR - Python"
    /\ ~ resp.detail.is_valid
    /\ Contains(resp.detail.message, "Could not extract any text")

\* The name stage of the request is reached: no call raises, the caption
\* passes the gate and there is text.
NameStageReached ==
    /\ resp.req.image_bytes.raises = ""
    /\ resp.req.image_bytes.full_text # ""
    /\ \/ resp.op = "verify_college_id_with_ai" /\ SomeKeyword({"yes", "id", "student"})
       \/ resp.op = "verify_certificate_with_ai"
              /\ SomeKeyword({"yes", "certificate", "award"})

\* The tokens of the lower-cased student name of the request.
NameTokens == Split(Lower(resp.req.student_name))

\* Those of them that are longer than 2 characters and occur in the
\* lower-cased OCR text.
NameTokensFound ==
    { i \in 1..Len(NameTokens) :
        /\ Len(NameTokens[i]) > 2
        /\ Contains(Lower(resp.req.image_bytes.full_text), NameTokens[i]) }

\* The verification was rejected at the name stage.
NameRejected ==
    /\ ~ resp.detail.is_valid
    /\ Contains(resp.detail.message, "does not match the name on the")

\* C18: for a name of at least one token, the name stage rejects exactly when
\* (tokens longer than 2 characters found in the text) / (all tokens) < 0.6;
\* "Jane Smith" on the text "jane smith cs101" is not rejected and scores a
\* student_name_match of 1.0 on a certificate.
C18_NameMatchRatio ==
    /\ (/\ resp.op \in {"verify_college_id_with_ai", "verify_certificate_with_ai"}
        /\ NameStageReached /\ Len(NameTokens) > 0)
       => (NameRejected <=> 10 * Cardinality(NameTokensFound) < 6 * Len(NameTokens))
    /\ (/\ resp.op = "verify_certificate_with_ai"
        /\ NameStageReached
        /\ resp.req.student_name = "Jane Smith"
        /\ resp.req.image_bytes.full_text = "jane smith cs101")
       => /\ ~ NameRejected
          /\ resp.detail.extra.student_name_match = 1000

\* C18 witness: a name of five tokens, two of them short, of which three
\* are found: the ratio is 0.6 and the card is accepted.
C18_Witness ==
    /\ resp.op = "verify_college_id_with_ai"
    /\ NameStageReached
    /\ Len(NameTokens) = 5 /\ Cardinality(NameTokensFound) = 3
    /\ resp.detail.is_valid

\* A call inside the verification of the upload raises: the preprocessing
\* or the caption call, or, once the caption has passed the gate, the OCR
\* call or a step on its result.
RaisesInside(r) ==
    LET image == UploadOf(r).bytes
        keywords == IF r.op = "upload_college_id" THEN {"yes", "id", "student"}
                    ELSE {"yes", "certificate", "award"}
    IN  \/ image.raises \in {"preprocess", "caption"}
        \/ /\ image.raises \in {"ocr", "match"}
           /\ \E keyword \in keywords : Contains(Lower(image.caption), keyword)

\* C19: an exception inside the verification of an upload does not leave
\* the verification: the endpoint answers 400 with a detail that carries the
\* text of the exception, and no file and no student record is changed.
C19_ExceptionBecomesRejection ==
    [][ (ReachesVerification(resp', students) /\ RaisesInside(resp'))
            => /\ resp'.status = 400
               /\ Contains(resp'.detail, UploadOf(resp').bytes.error)
               /\ files' = files
               /\ students' = students ]_vars

\* C19 witness: the OCR call raised on the certificate of a skill and the
\* request was answered 400 with the text of the exception.
C19_Witness ==
    /\ resp.op = "add_skill"
    /\ ReachesVerification(resp, students)
    /\ resp.req.certificate.bytes.raises = "ocr"
    /\ resp.status = 400
    /\ Contains(resp.detail, "Error processing certificate: OCR engine failure")

\* C20: an update changes, in the student of the roll number, at most the
\* fields the request supplies; every other field of that record, every
\* other record and the number of records stay as they were, and an update
\* that supplies no field leaves the collection as it was.
C20_UpdateFrame ==
    [][ resp'.op = "update_student"
        => LET update == resp'.req.update
               roll_no == resp'.req.roll_no
           IN  /\ \A d \in students : d.roll_no # roll_no => d \in students'
               /\ \A d \in students :
                     d.roll_no = roll_no
                        => \E e \in students' :
                              /\ e._id = d._id
                              /\ \A f \in DOMAIN d \ DOMAIN update : e[f] = d[f]
               /\ Cardinality(students') = Cardinality(students)
               /\ DOMAIN update = {} => students' = students
               /\ files' = files ]_vars

\* C20 witness: the name of a student who holds a skill, a comment and an
\* identity card was updated next to another student, and the three are
\* still there.
C20_Witness ==
    /\ resp.op = "update_student" /\ resp.status = 200
    /\ DOMAIN resp.req.update = {"name"}
    /\ Cardinality(students) = 2
    /\ \E d \in students :
          /\ d.roll_no = resp.req.roll_no
          /\ d.name = resp.req.update.name
          /\ Len(d.skills) = 1 /\ Len(d.comments) = 1
          /\ d.college_id_pic = UploadPath("CS101", "college_id")

\* C21: a verify call changes nothing but the verified flag of the earliest
\* item of that name in the list of the student of the roll number, which
\* is set; later items of the name, other lists, other fields and other
\* records stay as they were.
C21_VerifyFirstMatchOnly ==
    [][ resp'.op \in VerifyOps
        => LET roll_no == resp'.req.roll_no
               field == VerifyField(resp'.op)
           IN  /\ Cardinality(students') = Cardinality(students)
               /\ \A d \in students :
                     \E e \in students' :
                        /\ e._id = d._id
                        /\ \A g \in DOMAIN d :
                              IF d.roll_no = roll_no /\ g = field
                              THEN /\ Len(e[g]) = Len(d[g])
                                   /\ \A i \in 1..Len(d[g]) :
                                         e[g][i] =
                                            IF i = FirstNamed(d[g], resp'.req.name)
                                            THEN [d[g][i] EXCEPT !.verified = TRUE]
                                            ELSE d[g][i]
                              ELSE e[g] = d[g] ]_vars

\* C21 witness: of two achievements of one name, a verify call has verified
\* the first and left the second unverified.
C21_Witness ==
    /\ resp.op = "verify_achievement" /\ resp.status = 200
    /\ \E d \in students :
          /\ d.roll_no = resp.req.roll_no
          /\ Len(d.achievements) = 2
          /\ d.achievements[1].name = resp.req.name
          /\ d.achievements[2].name = resp.req.name
          /\ d.achievements[1].verified /\ ~ d.achievements[2].verified

\* The roll number and the OCR text of the request, lower-cased and with
\* spaces, hyphens and underscores removed.
RollClean == Clean(Lower(resp.req.roll_no))

TextClean == Clean(Lower(resp.req.image_bytes.full_text))

\* The positions of the cleaned roll number whose character occurs in the
\* cleaned text.
RollCharsFound ==
    { i \in 1..Len(RollClean) : Contains(TextClean, SubSeq(RollClean, i, i)) }

\* The roll-number stage of an identity card is reached: the name stage is,
\* and passes.
RollStageReached ==
    /\ resp.op = "verify_college_id_with_ai"
    /\ NameStageReached
    /\ Len(NameTokens) > 0
    /\ 10 * Cardinality(NameTokensFound) >= 6 * Len(NameTokens)

\* C22: the roll-number stage passes when the cleaned roll number is a
\* contiguous part of the cleaned text, and otherwise exactly when the
\* positions of the roll number whose character occurs in the text are at
\* least 0.6 of its length; a card that does not pass is rejected with the
\* roll-number message.
C22_RollNumberStage ==
    RollStageReached
    => IF \/ Contains(TextClean, RollClean)
          \/ (Len(RollClean) > 0
                 /\ 10 * Cardinality(RollCharsFound) >= 6 * Len(RollClean))
       THEN resp.detail.is_valid
       ELSE /\ ~ resp.detail.is_valid
            /\ Contains(resp.detail.message, "does not match the ID on the card")

\* C22 witness: the roll number is not in the text as a whole, three of its
\* five characters are, and the card is accepted.
C22_Witness ==
    /\ RollStageReached
    /\ ~ Contains(TextClean, RollClean)
    /\ Len(RollClean) = 5 /\ Cardinality(RollCharsFound) = 3
    /\ resp.detail.is_valid

\* A roll number that is not in the text and has too few characters there is
\* rejected at the roll-number stage.
C22_Rejected ==
    /\ RollStageReached
    /\ Cardinality(RollCharsFound) > 0
    /\ ~ resp.detail.is_valid

\* The stages after the name stage of a certificate are reached: the name
\* stage is, and passes.
InstitutionStageReached ==
    /\ resp.op = "verify_certificate_with_ai"
    /\ NameStageReached
    /\ \/ Len(NameTokens) = 0
       \/ 10 * Cardinality(NameTokensFound) >= 6 * Len(NameTokens)

\* Where the description of the request is split: before the earliest
\* " - " in it, 0 if it has none or there is no description.
SplitAt ==
    IF resp.req.description = None THEN 0
    ELSE LET desc == resp.req.description
             seps == { i \in 1..Len(desc) :
                         i + 2 <= Len(desc) /\ SubSeq(desc, i, i + 2) = " - " }
         IN  IF seps = {} THEN 0 ELSE CHOOSE i \in seps : \A j \in seps : j >= i

ExpectedInstitution ==
    IF SplitAt = 0 THEN ""
    ELSE Lower(Strip(SubSeq(resp.req.description, 1, SplitAt - 1)))

ExpectedSkill ==
    IF SplitAt = 0 THEN Lower(resp.req.skill_or_achievement)
    ELSE Lower(Strip(SubSeq(resp.req.description, SplitAt + 3,
                            Len(resp.req.description))))

\* Of the words of the text that are longer than 2 characters, those that
\* occur in the lower-cased OCR text of the request, and whether they are
\* fewer than 0.6 of them.
FewWordsFound(text) ==
    LET words == LongWords(Split(text))
        found == { i \in 1..Len(words) :
                     Contains(Lower(resp.req.image_bytes.full_text), words[i]) }
    IN  Len(words) > 0 /\ 10 * Cardinality(found) < 6 * Len(words)

\* C23: a description is split at its first " - " into the institution and
\* the expected skill, which replaces the submitted name; without " - " the
\* submitted name is expected and institution_match is 1.0.  The institution
\* stage, then the skill stage, rejects exactly when fewer than 0.6 of its
\* words longer than 2 characters occur in the text, naming what it
\* expected; when neither rejects, the certificate is accepted.
C23_DescriptionStages ==
    InstitutionStageReached
    => /\ (SplitAt = 0 => resp.detail.extra.institution_match = 1000)
       /\ IF FewWordsFound(ExpectedInstitution)
          THEN /\ ~ resp.detail.is_valid
               /\ resp.detail.message
                     = "Institution name '" \o ExpectedInstitution
                          \o "' does not match the certificate content"
          ELSE IF FewWordsFound(ExpectedSkill)
          THEN /\ ~ resp.detail.is_valid
               /\ resp.detail.message
                     = "Skill/Achievement '" \o ExpectedSkill
                          \o "' does not match the certificate content"
          ELSE resp.detail.is_valid

\* C23 witness: the submitted skill is not in the text, the skill of the
\* description is, and the certificate is accepted.
C23_Witness ==
    /\ InstitutionStageReached
    /\ resp.req.skill_or_achievement = "C++"
    /\ resp.req.description = "IIITNR - Python"
    /\ ~ Contains(Lower(resp.req.image_bytes.full_text), "c++")
    /\ resp.detail.is_valid

\* A description with " - " twice is split at the first, and its institution
\* is rejected.
C23_SplitAtFirst ==
    /\ InstitutionStageReached
    /\ resp.req.description = "IIT Delhi - Python - Advanced"
    /\ resp.detail.message = "Institution name 'iit delhi' does not match the certificate content"

\* The sub-scores of the request's result that are still 0.0.
ZeroScores(fields) == \A f \in fields : resp.detail.extra[f] = 0

\* C24: a certificate goes through the caption gate, the text, the name, the
\* institution and the skill in this order.  It is accepted exactly when
\* all five pass; otherwise the message is that of the first that fails and
\* the sub-scores of the stages after it are 0.
C24_StageOrder ==
    (resp.op = "verify_certificate_with_ai" /\ resp.req.image_bytes.raises = "")
    => IF ~ SomeKeyword({"yes", "certificate", "award"})
       THEN /\ ~ resp.detail.is_valid
            /\ Contains(resp.detail.message, "does not appear to be a valid certificate")
            /\ ZeroScores({"ocr_confidence", "student_name_match",
                           "institution_match", "skill_match"})
       ELSE IF resp.req.image_bytes.full_text = ""
       THEN /\ ~ resp.detail.is_valid
            /\ Contains(resp.detail.message, "Could not extract any text")
            /\ ZeroScores({"student_name_match", "institution_match", "skill_match"})
       ELSE IF ~ InstitutionStageReached
       THEN /\ ~ resp.detail.is_valid
            /\ Contains(resp.detail.message, "does not match the name on the certificate")
            /\ ZeroScores({"institution_match", "skill_match"})
       ELSE IF FewWordsFound(ExpectedInstitution)
       THEN /\ ~ resp.detail.is_valid
            /\ Contains(resp.detail.message, "Institution name '")
            /\ ZeroScores({"skill_match"})
       ELSE IF FewWordsFound(ExpectedSkill)
       THEN /\ ~ resp.detail.is_valid
            /\ Contains(resp.detail.message, "Skill/Achievement '")
       ELSE resp.detail.is_valid

\* C24 witness: the name, the institution and the skill are all missing
\* from the text; the certificate is rejected for the name and the scores of
\* institution and skill are 0.
C24_Witness ==
    /\ resp.op = "verify_certificate_with_ai"
    /\ NameStageReached
    /\ ~ InstitutionStageReached
    /\ FewWordsFound(ExpectedInstitution)
    /\ FewWordsFound(ExpectedSkill)
    /\ Contains(resp.detail.message, "does not match the name on the certificate")
    /\ ZeroScores({"institution_match", "skill_match"})


\* The weighted sum of the request's sub-scores, in hundred-thousandths,
\* with the weights in hundredths.
WeightedSum(wi, wn, wt, ws, wo) ==
    LET s == resp.detail.extra
    IN  wi * s.image_type_match + wn * s.student_name_match + wt * s.institution_match
            + ws * s.skill_match + wo * s.ocr_confidence

\* x is y rounded to two decimals, both in hundred-thousandths.
RoundedFrom(x, y) == x - y \in -500 .. 500

\* C25: with token confidences in [0,1], the overall confidence of a
\* certificate lies in [0,1] on every return path: it is 0 after an
\* exception or a caption rejection, 0.2 of the OCR confidence without text,
\* and the rounded sum of the sub-scores under weights that add up to 1 at
\* the name, the institution and the skill.
C25_OverallConfidenceInRange ==
    resp.op = "verify_certificate_with_ai"
    => LET s == resp.detail.extra
           m == resp.detail.message
       IN  /\ \A f \in DOMAIN s : s[f] \in 0 .. 1000
           /\ (Contains(m, "Error processing certificate")
                  \/ Contains(m, "does not appear to be a valid certificate"))
                 => s.overall_confidence = 0
           /\ Contains(m, "Could not extract any text")
                 => 5 * s.overall_confidence = s.ocr_confidence
           /\ Contains(m, "does not match the name on the certificate")
                 => RoundedFrom(100 * s.overall_confidence, WeightedSum(25, 25, 0, 0, 50))
           /\ Contains(m, "Institution name '")
                 => RoundedFrom(100 * s.overall_confidence, WeightedSum(20, 20, 20, 0, 40))
           /\ (Contains(m, "Skill/Achievement '") \/ resp.detail.is_valid)
                 => RoundedFrom(100 * s.overall_confidence, WeightedSum(20, 20, 15, 20, 25))

\* C25 witness: a certificate is accepted with every match at 1.0 and an OCR
\* confidence above 0.9, and its overall confidence is 0.98.
C25_Witness ==
    /\ resp.op = "verify_certificate_with_ai"
    /\ resp.detail.is_valid
    /\ resp.detail.extra.student_name_match = 1000
    /\ resp.detail.extra.institution_match = 1000
    /\ resp.detail.extra.skill_match = 1000
    /\ resp.detail.extra.ocr_confidence > 900
    /\ resp.detail.extra.overall_confidence = 980

\* The student of the round holds an unverified item.
UnverifiedLeft ==
    \E d \in students :
        /\ d.roll_no = resp.req.roll_no
        /\ \E f \in {"skills", "achievements", "projects"} :
              \E i \in 1..Len(d[f]) : Unverified(d[f][i])

\* The student of the round is on the list read after it.
StillListed == \E e \in resp.detail : e.roll_no = resp.req.roll_no

\* Every item listed for the round was the first of its name in its array:
\* no element before it, verified or not, had the same name.
ListedFirstOfName ==
    LET e == resp.req.listed
    IN  \A d \in students : d.roll_no = resp.req.roll_no =>
          \A f \in {"skills", "achievements", "projects"} :
             \A i \in 1..Len(d[f]), j \in 1..Len(d[f]) :
                (j < i /\ d[f][j].name = d[f][i].name)
                    => \A k \in 1..Len(e["unverified_" \o f]) :
                          e["unverified_" \o f][k].name # d[f][i].name

\* C26 as stated: after a verify call for every item listed for a student,
\* the student has no unverified item left and is listed no more, whatever
\* the names of the items.
C26_AllListedVerified ==
    resp.op = "verify_listed" => (~ UnverifiedLeft /\ ~ StillListed)

\* C26: after a verify call for every item listed for a student, the
\* student has no unverified item left and is listed no more, provided that
\* each listed item is the first of its name in its array; of two items of
\* one name only the first is ever verified.
C26_FirstOfNameVerified ==
    (resp.op = "verify_listed" /\ ListedFirstOfName)
        => (~ UnverifiedLeft /\ ~ StillListed)

\* C26 witness: a round over one skill and one project, after which the
\* student is listed no more.
C26_Witness ==
    /\ resp.op = "verify_listed"
    /\ ListedFirstOfName
    /\ Len(resp.req.listed.unverified_skills) = 1
    /\ Len(resp.req.listed.unverified_projects) = 1
    /\ ~ UnverifiedLeft
    /\ ~ StillListed


\* C27: the college_name of every stored student is the name of a
\* registered college, whatever create_student, update_student and
\* delete_student requests were served.
C27_CollegeRegistered ==
    \A d \in students : get_college_by_name(d.college_name) # {}

\* C28: the college_id_pic of a stored student, when it is not null, is the
\* path of a file that exists, however uploads of identity cards, updates
\* and deletions of students interleave.
C28_PictureExists ==
    \A d \in students : d.college_id_pic # None => d.college_id_pic \in DOMAIN files

\* C29: the file an accepted certificate of a skill or an achievement is
\* written to is not the identity card picture of a student, nor the
\* certificate of an item of another student or of another name.
C29_UploadKeepsOtherFiles ==
    [][ (/\ resp'.op \in {"add_skill", "add_achievement"}
         /\ resp'.status = 200
         /\ resp'.req.certificate.filename # "")
            => LET file_path == UploadPath(resp'.req.roll_no, CleanName(resp'.req.name))
               IN  \A d \in students :
                     /\ d.college_id_pic # file_path
                     /\ \A f \in {"skills", "achievements"} :
                           \A i \in 1..Len(d[f]) :
                              d[f][i].certificate = file_path
                                  => /\ d.roll_no = resp'.req.roll_no
                                     /\ d[f][i].name = resp'.req.name ]_vars

\* The comments of seq with another timestamp, in their order.
Others(seq, timestamp) == SelectSeq(seq, LAMBDA c : c.timestamp # timestamp)

====
